---- MODULE Spec2Model ----
(***************************************************************************)
(* Model of the ICE (Identifiant Commun de l'Entreprise) pipeline of       *)
(* zellige: sanitizeICE, calculateControl, validateControl, validateICE,   *)
(* isValidICE (src/src/validators/ice.ts) and formatICE, unformatICE       *)
(* (src/src/formatters/ice.ts).                                            *)
(*                                                                         *)
(* A JavaScript string is a sequence of UTF-16 code units (naturals):      *)
(* "0".."9" are 48..57.  A JavaScript value handed to a function is a      *)
(* record [type, str]; type is what `typeof`/the constructor tells apart   *)
(* and str is the string content of a primitive string or String object.   *)
(* A call that may throw returns an outcome record with a `threw` flag.    *)
(***************************************************************************)
EXTENDS Integers, Sequences, FiniteSets, TLC

VARIABLES pc, call, prev, result,
          now, lru, ghost, validationCache, detailsCache

\* the clock (Date.now()), a cache under test with the observations made of
\* its last operation, and the two caches of the phone module
cacheVars == <<now, lru, ghost, validationCache, detailsCache>>

vars == <<pc, call, prev, result, now, lru, ghost, validationCache, detailsCache>>

(***************************************************************************)
(* Program constants (../constants/ice).                                   *)
(***************************************************************************)
ICE_LENGTH == 15

COMPANY_LENGTH == 9

ESTABLISHMENT_LENGTH == 4

CONTROL_LENGTH == 2

(***************************************************************************)
(* Code units.                                                             *)
(***************************************************************************)
CH == [zero |-> 48, nine |-> 57, space |-> 32, tab |-> 9, plus |-> 43,
       minus |-> 45, dot |-> 46, slash |-> 47, underscore |-> 95,
       A |-> 65, B |-> 66, C |-> 67, E |-> 69, I |-> 73, O |-> 79, X |-> 88,
       b |-> 98, c |-> 99, e |-> 101, i |-> 105, o |-> 111, x |-> 120,
       fullwidth1 |-> 65297, M |-> 77, a |-> 97, m |-> 109,
       lparen |-> 40, rparen |-> 41, colon |-> 58, t |-> 116, l |-> 108,
       star |-> 42]

\* /\d/ : the ASCII digits only
IsDigit(c) == (c >= CH.zero) /\ (c <= CH.nine)

DigitVal(c) == c - CH.zero

AllDigits(s) == \A i \in 1..Len(s) : IsDigit(s[i])

\* a tuple of digit values as the string of those digits
Digits(t) == [i \in 1..Len(t) |-> CH.zero + t[i]]

\* `const x = v; ...`: v is evaluated once and the rest sees its value
Bind(v, Rest(_)) == CHOOSE r \in {Rest(x) : x \in {v}} : TRUE

Min(a, b) == IF a < b THEN a ELSE b

Max(a, b) == IF a > b THEN a ELSE b

(***************************************************************************)
(* String.prototype helpers, as ECMAScript defines them.                   *)
(***************************************************************************)
\* relative index of slice(): negative counts from the end, clamped
RelIndex(k, len) == IF k < 0 THEN Max(len + k, 0) ELSE Min(k, len)

\* s.slice(start, end)
StrSlice(s, start, end) ==
  LET from == RelIndex(start, Len(s))
      to == RelIndex(end, Len(s))
  IN SubSeq(s, from + 1, to)

\* s.slice(start)
StrSliceFrom(s, start) == SubSeq(s, RelIndex(start, Len(s)) + 1, Len(s))

\* s.substring(start, end) for 0 <= start <= end
Substring(s, start, end) == SubSeq(s, Min(start, Len(s)) + 1, Min(end, Len(s)))

\* a bug: the control is not padded to two digits
PadStart0_unpadded(s, width) == s

\* s.padStart(width, "0")
PadStart0(s, width) ==
  IF Len(s) >= width THEN s
  ELSE [i \in 1..(width - Len(s)) |-> CH.zero] \o s

\* a bug: full-width digits are kept as digits
StripNonDigits_unicodeDigits(s) ==
  SelectSeq(s, LAMBDA c : IsDigit(c) \/ (c >= 65296 /\ c <= 65305))

\* s.replace(/\D/g, '') : keep the ASCII digits, in order
RECURSIVE StripNonDigits(_)
StripNonDigits(s) ==
  IF s = <<>> THEN <<>>
  ELSE IF IsDigit(Head(s)) THEN <<Head(s)>> \o StripNonDigits(Tail(s))
  ELSE StripNonDigits(Tail(s))

\* (n).toString() for an integer -96..96
IntToString(n) ==
  LET a == IF n < 0 THEN 0 - n ELSE n
      ds == IF a < 10 THEN <<CH.zero + a>>
            ELSE <<CH.zero + (a \div 10), CH.zero + (a % 10)>>
  IN IF n < 0 THEN <<CH.minus>> \o ds ELSE ds

(***************************************************************************)
(* JavaScript values.                                                      *)
(***************************************************************************)
JSString(s) == [type |-> "string", str |-> s]

JSStringObject(s) == [type |-> "String", str |-> s]

JSNull == [type |-> "null", str |-> <<>>]

JSUndefined == [type |-> "undefined", str |-> <<>>]

JSNumber == [type |-> "number", str |-> <<>>]

JSObject == [type |-> "object", str |-> <<>>]

\* the value has String.prototype in its prototype chain: v.replace exists
HasStringMethods(v) == v.type \in {"string", "String"}

\* typeof v === 'string'
TypeofString(v) == v.type = "string"

Returned(v) == [threw |-> FALSE, value |-> v]

(***************************************************************************)
(* sanitizeICE: ice.replace(/\D/g, '').  On a value without a replace      *)
(* method the property access / call raises a TypeError.                   *)
(***************************************************************************)
sanitizeICE(ice) ==
  IF HasStringMethods(ice)
  THEN Returned(StripNonDigits(ice.str))
  ELSE [threw |-> TRUE, name |-> "TypeError"]

(***************************************************************************)
(* BigInt(payload) % 97n.  BigInt(string) applies StringToBigInt: white    *)
(* space is trimmed, the empty string is 0n, a decimal literal may carry   *)
(* one sign, 0x/0o/0b literals carry none, anything else is a SyntaxError. *)
(* The value has arbitrary precision; its remainder is computed here by    *)
(* Horner's rule, which equals the remainder of the whole number and keeps *)
(* every intermediate below 97 * radix.  The remainder of a negative       *)
(* BigInt keeps the sign of the dividend.                                  *)
(***************************************************************************)
StrWhiteSpace == {9, 10, 11, 12, 13, 32, 160, 5760, 8232, 8233, 8239, 8287, 12288, 65279}
                   \cup (8192..8202)

RECURSIVE TrimStart(_)
TrimStart(s) ==
  IF s # <<>> /\ Head(s) \in StrWhiteSpace THEN TrimStart(Tail(s)) ELSE s

RECURSIVE TrimEnd(_)
TrimEnd(s) ==
  IF s # <<>> /\ s[Len(s)] \in StrWhiteSpace
  THEN TrimEnd(SubSeq(s, 1, Len(s) - 1)) ELSE s

Trim(s) == TrimEnd(TrimStart(s))

\* value of a code unit as a digit of the radix, or -1
RadixDigit(c, radix) ==
  LET v == IF IsDigit(c) THEN c - CH.zero
           ELSE IF c >= 97 /\ c <= 102 THEN c - 87
           ELSE IF c >= 65 /\ c <= 70 THEN c - 55
           ELSE 0 - 1
  IN IF v >= 0 /\ v < radix THEN v ELSE 0 - 1

IsNumeral(s, radix) ==
  s # <<>> /\ \A i \in 1..Len(s) : RadixDigit(s[i], radix) >= 0

RECURSIVE HornerMod97(_, _, _)
HornerMod97(s, radix, acc) ==
  IF s = <<>> THEN acc
  ELSE HornerMod97(Tail(s), radix, (acc * radix + RadixDigit(Head(s), radix)) % 97)

\* [threw, name] or [threw, value] with value = BigInt(s) % 97n as an integer
BigIntMod97(s) ==
  Bind(Trim(s), LAMBDA t :
  LET prefix == IF Len(t) >= 2 /\ t[1] = CH.zero THEN t[2] ELSE 0
      radix == IF prefix \in {CH.x, CH.X} THEN 16
               ELSE IF prefix \in {CH.o, CH.O} THEN 8
               ELSE IF prefix \in {CH.b, CH.B} THEN 2
               ELSE 10
  IN IF t = <<>> THEN Returned(0)
     ELSE IF radix # 10
     THEN IF IsNumeral(SubSeq(t, 3, Len(t)), radix)
          THEN Returned(HornerMod97(SubSeq(t, 3, Len(t)), radix, 0))
          ELSE [threw |-> TRUE, name |-> "SyntaxError"]
     ELSE IF IsNumeral(t, 10) THEN Returned(HornerMod97(t, 10, 0))
     ELSE IF t[1] = CH.plus /\ IsNumeral(Tail(t), 10)
     THEN Returned(HornerMod97(Tail(t), 10, 0))
     ELSE IF t[1] = CH.minus /\ IsNumeral(Tail(t), 10)
     THEN Returned(0 - HornerMod97(Tail(t), 10, 0))
     ELSE [threw |-> TRUE, name |-> "SyntaxError"])

(***************************************************************************)
(* calculateControl(ice): the payload is the string without its last two   *)
(* code units when the length is ICE_LENGTH, the whole string otherwise.   *)
(***************************************************************************)
\* a bug: the control digits are not cut off a full identifier
calculateControl_wholeString(ice) ==
  Bind(BigIntMod97(ice), LAMBDA control :
    IF control.threw THEN control
    ELSE Returned(PadStart0(IntToString(control.value), CONTROL_LENGTH)))

calculateControl(ice) ==
  LET payload == IF Len(ice) = ICE_LENGTH
                 THEN StrSlice(ice, 0, 0 - CONTROL_LENGTH)
                 ELSE ice
  IN Bind(BigIntMod97(payload), LAMBDA control :
       IF control.threw THEN control
       ELSE Returned(PadStart0(IntToString(control.value), CONTROL_LENGTH)))

(***************************************************************************)
(* validateControl(ice): false for a value that is not a primitive string, *)
(* else calculateControl(ice) === ice.slice(-CONTROL_LENGTH).              *)
(***************************************************************************)
\* a bug: the placeholder check accepts every string
validateControl_acceptAll(ice) == Returned(TypeofString(ice))

validateControl(ice) ==
  IF ~TypeofString(ice) THEN Returned(FALSE)
  ELSE Bind(calculateControl(ice.str), LAMBDA control :
         IF control.threw THEN control
         ELSE Returned(control.value = StrSliceFrom(ice.str, 0 - CONTROL_LENGTH)))

(***************************************************************************)
(* ICEValidationErrorCode, ICEValidationException and ICEValidationResult. *)
(* An optional member is modelled by a presence flag next to the member;   *)
(* the keys of a details object are listed in `keys`.                      *)
(***************************************************************************)
ICEValidationErrorCode ==
  [INVALID_INPUT_TYPE |-> "ICE_001", INVALID_LENGTH |-> "ICE_002",
   NON_NUMERIC_CHARACTERS |-> "ICE_003", INVALID_CONTROL |-> "ICE_004"]

NoDetails ==
  [keys |-> {}, receivedLength |-> 0, sanitized |-> <<>>,
   calculatedControl |-> <<>>, providedControl |-> <<>>]

NoComponents == [company |-> <<>>, establishment |-> <<>>, control |-> <<>>]

NoError == [code |-> "", message |-> "", hasDetails |-> FALSE, details |-> NoDetails]

\* a validation result that is absent
NoValidation ==
  [isValid |-> FALSE, sanitized |-> <<>>, hasComponents |-> FALSE,
   components |-> NoComponents, hasError |-> FALSE, error |-> NoError]

\* throw new ICEValidationException(code, message, details)
ICEValidationException(code, message, details) ==
  [threw |-> TRUE, name |-> "ICEValidationException", code |-> code,
   message |-> message, details |-> details]

\* error instanceof ICEValidationException
isICEValidationException(error) == error.name = "ICEValidationException"

\* a bug: only a string that is too short is refused
lengthMismatch_tooShortOnly(sanitized) == Len(sanitized) < ICE_LENGTH

\* sanitized.length !== ICE_LENGTH
lengthMismatch(sanitized) == Len(sanitized) # ICE_LENGTH

\* the try block of validateICE from the length check on
validateICEChecks(sanitized) ==
  IF lengthMismatch(sanitized)
  THEN ICEValidationException(
         ICEValidationErrorCode.INVALID_LENGTH, "ICE must be exactly 15 digits",
         [NoDetails EXCEPT !.keys = {"receivedLength", "sanitized"},
                           !.receivedLength = Len(sanitized),
                           !.sanitized = sanitized])
  ELSE IF ~(sanitized # <<>> /\ AllDigits(sanitized))
  THEN ICEValidationException(
         ICEValidationErrorCode.NON_NUMERIC_CHARACTERS,
         "ICE must contain only numeric characters",
         [NoDetails EXCEPT !.keys = {"sanitized"}, !.sanitized = sanitized])
  ELSE
  LET components ==
        [company |-> Substring(sanitized, 0, COMPANY_LENGTH),
         establishment |-> Substring(sanitized, COMPANY_LENGTH,
                                     COMPANY_LENGTH + ESTABLISHMENT_LENGTH),
         control |-> Substring(sanitized, COMPANY_LENGTH + ESTABLISHMENT_LENGTH,
                               ICE_LENGTH)]
  IN
  Bind(validateControl(JSString(sanitized)), LAMBDA valid :
    IF valid.threw THEN valid
    ELSE IF ~valid.value
    THEN Bind(calculateControl(sanitized), LAMBDA calculated :
           IF calculated.threw THEN calculated
           ELSE ICEValidationException(
                  ICEValidationErrorCode.INVALID_CONTROL, "Invalid ICE control",
                  [NoDetails EXCEPT
                     !.keys = {"calculatedControl", "providedControl", "sanitized"},
                     !.calculatedControl = calculated.value,
                     !.providedControl = components.control,
                     !.sanitized = sanitized]))
    ELSE Returned([isValid |-> TRUE, sanitized |-> sanitized,
                   hasComponents |-> TRUE, components |-> components,
                   hasError |-> FALSE, error |-> NoError]))

\* the try block of validateICE
validateICETry(ice) ==
  Bind(sanitizeICE(ice), LAMBDA s :
    IF s.threw THEN s ELSE validateICEChecks(s.value))

(***************************************************************************)
(* validateICE(ice): the try block, and the catch block that turns an      *)
(* ICEValidationException into its result and any other exception into     *)
(* INVALID_INPUT_TYPE.  `error.details?.sanitized || ''` is the sanitized   *)
(* string of the details (every details object built above has one).       *)
(***************************************************************************)
\* a bug: the failure result still carries components
catchICEValidationException_withComponents(error) ==
  [isValid |-> FALSE, sanitized |-> error.details.sanitized,
   hasComponents |-> TRUE,
   components |-> [company |-> Substring(error.details.sanitized, 0, COMPANY_LENGTH),
                   establishment |-> <<>>, control |-> <<>>],
   hasError |-> TRUE,
   error |-> [code |-> error.code, message |-> error.message,
              hasDetails |-> TRUE, details |-> error.details]]

\* the result built from a caught ICEValidationException
catchICEValidationException(error) ==
  [isValid |-> FALSE, sanitized |-> error.details.sanitized,
   hasComponents |-> FALSE, components |-> NoComponents,
   hasError |-> TRUE,
   error |-> [code |-> error.code, message |-> error.message,
              hasDetails |-> TRUE, details |-> error.details]]

validateICE(ice) ==
  Bind(validateICETry(ice), LAMBDA t :
    IF ~t.threw THEN t.value
    ELSE IF isICEValidationException(t) THEN catchICEValidationException(t)
    ELSE [isValid |-> FALSE, sanitized |-> <<>>,
          hasComponents |-> FALSE, components |-> NoComponents,
          hasError |-> TRUE,
          error |-> [code |-> ICEValidationErrorCode.INVALID_INPUT_TYPE,
                     message |-> "Unexpected validation error",
                     hasDetails |-> FALSE, details |-> NoDetails]])

\* isValidICE(ice): validateICE(ice).isValid
isValidICE(ice) == validateICE(ice).isValid

(***************************************************************************)
(* formatICE(ice, options).  options is [hasSeparator, separator, prefix,  *)
(* groupCompanyDigits]; `options.separator || ' '` takes the single space  *)
(* when the separator is undefined or the empty string.                    *)
(***************************************************************************)
ICEFormattingErrorCode ==
  [INVALID_INPUT_TYPE |-> "ICE_FORMAT_001", INVALID_SEPARATOR |-> "ICE_FORMAT_002",
   INVALID_PREFIX |-> "ICE_FORMAT_003", INVALID_GROUPING |-> "ICE_FORMAT_004"]

\* /\d/.test(s)
ContainsDigit(s) == \E i \in 1..Len(s) : IsDigit(s[i])

\* parts.join(separator)
RECURSIVE Join(_, _)
Join(parts, separator) ==
  IF parts = <<>> THEN <<>>
  ELSE IF Len(parts) = 1 THEN parts[1]
  ELSE parts[1] \o separator \o Join(Tail(parts), separator)

\* a bug: only an identifier of the wrong length is refused
validationFailed_lengthOnly(validation) ==
  validation.hasError
  /\ validation.error.code = ICEValidationErrorCode.INVALID_LENGTH

\* !validation.isValid
validationFailed(validation) == ~validation.isValid

\* options.separator || ' '
separatorOf(options) ==
  IF options.hasSeparator /\ options.separator # <<>>
  THEN options.separator ELSE <<CH.space>>

\* a bug: a digit is let through as separator
invalidSeparator_lengthOnly(separator) == Len(separator) > 1

\* separator.length > 1 || /\d/.test(separator)
invalidSeparator(separator) == Len(separator) > 1 \/ ContainsDigit(separator)

\* a bug: the groups of the company are joined by a space, whatever the
\* separator
groupCompany_spaces(company, separator) ==
  Join(<<Substring(company, 0, 3), Substring(company, 3, 6),
         Substring(company, 6, 9)>>, <<CH.space>>)

\* [company.substring(0, 3), company.substring(3, 6),
\*  company.substring(6, 9)].join(separator)
groupCompany(company, separator) ==
  Join(<<Substring(company, 0, 3), Substring(company, 3, 6),
         Substring(company, 6, 9)>>, separator)

formatICE(ice, options) ==
  Bind(validateICE(ice), LAMBDA validation :
  IF validationFailed(validation)
  THEN [threw |-> TRUE, name |-> "ICEFormattingError",
        code |-> ICEFormattingErrorCode.INVALID_INPUT_TYPE,
        message |-> "Cannot format invalid ICE number",
        details |-> [keys |-> {"input", "validationResult"}, input |-> ice,
                     validationResult |-> validation, separator |-> <<>>]]
  ELSE
  LET company == validation.components.company
      establishment == validation.components.establishment
      control == validation.components.control
      separator == separatorOf(options)
  IN
  IF invalidSeparator(separator)
  THEN [threw |-> TRUE, name |-> "ICEFormattingError",
        code |-> ICEFormattingErrorCode.INVALID_SEPARATOR,
        message |-> "Separator must be a single non-digit character",
        details |-> [keys |-> {"separator"}, input |-> JSUndefined,
                     validationResult |-> validation, separator |-> separator]]
  ELSE
  LET grouped == IF options.groupCompanyDigits
                 THEN groupCompany(company, separator)
                 ELSE company
      formatted == grouped \o separator \o establishment \o separator \o control
  IN Returned(IF options.prefix
              THEN <<CH.I, CH.C, CH.E>> \o separator \o formatted
              ELSE formatted))

(***************************************************************************)
(* unformatICE(ice): strip a leading "ICE" (any letter case) with the      *)
(* non-digits that follow it, then every remaining non-digit.              *)
(***************************************************************************)
\* s.replace(/^ICE\D*/i, '')
RECURSIVE DropLeadingNonDigits(_)
DropLeadingNonDigits(s) ==
  IF s # <<>> /\ ~IsDigit(Head(s)) THEN DropLeadingNonDigits(Tail(s)) ELSE s

StripICEPrefix(s) ==
  IF Len(s) >= 3 /\ s[1] \in {CH.I, CH.i} /\ s[2] \in {CH.C, CH.c}
     /\ s[3] \in {CH.E, CH.e}
  THEN DropLeadingNonDigits(SubSeq(s, 4, Len(s)))
  ELSE s

\* a bug: after the label only blanks and hyphens are removed
unformatICE_blanksOnly(ice) ==
  IF HasStringMethods(ice)
  THEN Returned(SelectSeq(StripICEPrefix(ice.str),
                          LAMBDA c : c \notin {CH.space, CH.minus}))
  ELSE [threw |-> TRUE, name |-> "TypeError"]

unformatICE(ice) ==
  IF HasStringMethods(ice)
  THEN Returned(StripNonDigits(StripICEPrefix(ice.str)))
  ELSE [threw |-> TRUE, name |-> "TypeError"]

(***************************************************************************)
(* formatICEWhileTyping(input, maxLength): the digits of the input, cut to *)
(* maxLength, then three replace calls, each on the leftmost match only.   *)
(***************************************************************************)
\* index of the leftmost run of k digits in s, 0 when there is none: where
\* /\d{k}/ first matches
FirstDigitRun(s, k) ==
  LET starts == {i \in 1..(Len(s) - k + 1) :
                   \A j \in i..(i + k - 1) : IsDigit(s[j])}
  IN IF starts = {} THEN 0
     ELSE CHOOSE i \in starts : \A j \in starts : i <= j

\* the capture groups (\d{w1})(\d{w2})... of a matched run
RECURSIVE CaptureGroups(_, _)
CaptureGroups(run, widths) ==
  IF widths = <<>> THEN <<>>
  ELSE <<SubSeq(run, 1, Head(widths))>>
         \o CaptureGroups(SubSeq(run, Head(widths) + 1, Len(run)), Tail(widths))

RECURSIVE SumWidths(_)
SumWidths(widths) ==
  IF widths = <<>> THEN 0 ELSE Head(widths) + SumWidths(Tail(widths))

\* s.replace(/(\d{w1})(\d{w2}).../, '$1 $2 ...'): the regular expression
\* has no g flag, so the leftmost match only is replaced
ReplaceFirstRun(s, widths) ==
  LET k == SumWidths(widths)
      i == FirstDigitRun(s, k)
  IN IF i = 0 THEN s
     ELSE SubSeq(s, 1, i - 1)
            \o Join(CaptureGroups(SubSeq(s, i, i + k - 1), widths), <<CH.space>>)
            \o SubSeq(s, i + k, Len(s))

formatICEWhileTyping(input, maxLength) ==
  Bind(unformatICE(input), LAMBDA unformatted :
  IF unformatted.threw THEN unformatted
  ELSE
  Bind(StrSlice(unformatted.value, 0, maxLength), LAMBDA clean :
  Bind(ReplaceFirstRun(clean, <<3, 3, 3, 4, 2>>), LAMBDA full :
  Bind(ReplaceFirstRun(full, <<9, 4>>), LAMBDA withEstablishment :
  Bind(ReplaceFirstRun(withEstablishment, <<3, 3, 3>>), LAMBDA withCompany :
  Returned(Trim(withCompany)))))))

(***************************************************************************)
(* generateTestICE(options).  random is the sequence of the values         *)
(* Math.floor(Math.random() * 10) takes, in the order they are drawn.      *)
(***************************************************************************)
\* result += Math.floor(Math.random() * 10), length times
generateRandomDigits(length, random) ==
  [i \in 1..length |-> CH.zero + random[i]]

generateTestICE(options, random) ==
  Bind(generateRandomDigits(COMPANY_LENGTH, random), LAMBDA company :
  Bind(generateRandomDigits(ESTABLISHMENT_LENGTH,
                            SubSeq(random, COMPANY_LENGTH + 1, Len(random))),
       LAMBDA establishment :
  Bind(calculateControl(company \o establishment), LAMBDA control :
  IF control.threw THEN control
  ELSE
  Bind(company \o establishment \o control.value, LAMBDA rawICE :
  IF options.format
  THEN formatICE(JSString(rawICE),
                 [hasSeparator |-> options.hasSeparator,
                  separator |-> options.separator,
                  prefix |-> options.prefix,
                  groupCompanyDigits |-> options.groupCompanyDigits])
  ELSE Returned(rawICE)))))

(***************************************************************************)
(* extractICEComponents(input).  extractFromValidation is the function     *)
(* from the validator's result on, so that the tests' mocked validator can *)
(* be put in the place of validateICE.                                     *)
(***************************************************************************)
ICEExtractionErrorCode ==
  [INVALID_INPUT_TYPE |-> "ICE_EXTRACT_001", MISSING_COMPONENTS |-> "ICE_EXTRACT_002",
   INVALID_COMPONENT_LENGTH |-> "ICE_EXTRACT_003"]

\* throw new ICEExtractionError(code, message, details); the fields of
\* details that keys does not name are absent
ICEExtractionError(code, message, keys, input, validation, components) ==
  [threw |-> TRUE, name |-> "ICEExtractionError", code |-> code,
   message |-> message,
   details |-> [keys |-> keys, input |-> input, validationResult |-> validation,
                components |-> components]]

\* a bug: only an identifier of the wrong length is refused
rejectedByValidator_lengthOnly(validation) ==
  validation.hasError
  /\ validation.error.code = ICEValidationErrorCode.INVALID_LENGTH

\* !validation.isValid
rejectedByValidator(validation) == ~validation.isValid

\* a bug: only the width of the company is checked
invalidComponentLength_companyOnly(components) ==
  Len(components.company) # 9

\* company.length !== 9 || establishment.length !== 4 || control.length !== 2
invalidComponentLength(components) ==
  \/ Len(components.company) # 9
  \/ Len(components.establishment) # 4
  \/ Len(components.control) # 2

extractFromValidation(input, validation) ==
  IF rejectedByValidator(validation)
  THEN ICEExtractionError(ICEExtractionErrorCode.INVALID_INPUT_TYPE,
                          "Cannot extract elements from invalid ICE number",
                          {"input", "validationResult"}, input, validation,
                          NoComponents)
  ELSE IF ~validation.hasComponents
  THEN ICEExtractionError(ICEExtractionErrorCode.MISSING_COMPONENTS,
                          "ICE components are missing",
                          {"input"}, input, NoValidation, NoComponents)
  ELSE IF invalidComponentLength(validation.components)
  THEN ICEExtractionError(ICEExtractionErrorCode.INVALID_COMPONENT_LENGTH,
                          "ICE components have invalid lengths",
                          {"company", "establishment", "control"}, JSUndefined,
                          NoValidation, validation.components)
  ELSE Returned([company |-> validation.components.company,
                 establishment |-> validation.components.establishment,
                 control |-> validation.components.control])

extractICEComponents(input) == extractFromValidation(input, validateICE(input))

(***************************************************************************)
(* The bank validators.  The table MOROCCAN_BANKS (constants/banks) is     *)
(* read only: entry 007 is the one the tests name; 011 stands for any      *)
(* other active bank and 050 for an inactive one.  Every bank's RIB is its *)
(* code and 21 digits, its IBAN "MA", two check digits and the RIB.        *)
(***************************************************************************)
MOROCCAN_BANKS ==
  <<[code |-> Digits(<<0, 0, 7>>), name |-> "Attijariwafa Bank",
     swift |-> "BCMAMAMC", active |-> TRUE, ribLength |-> 24],
    [code |-> Digits(<<0, 5, 0>>), name |-> "inactive bank",
     swift |-> "XXXXMAMC", active |-> FALSE, ribLength |-> 24],
    [code |-> Digits(<<0, 1, 1>>), name |-> "another bank",
     swift |-> "YYYYMAMC", active |-> TRUE, ribLength |-> 24]>>

\* bank.ribRegex.test(s): the bank's code, then digits up to ribLength
ribRegexTest(bank, s) ==
  /\ Len(s) = bank.ribLength
  /\ SubSeq(s, 1, 3) = bank.code
  /\ AllDigits(s)

\* bank.ibanRegex.test(s): MA, two digits, then the bank's RIB
ibanRegexTest(bank, s) ==
  /\ Len(s) = bank.ribLength + 4
  /\ SubSeq(s, 1, 2) = <<CH.M, CH.A>>
  /\ AllDigits(SubSeq(s, 3, 4))
  /\ ribRegexTest(bank, SubSeq(s, 5, Len(s)))

\* MOROCCAN_BANKS.find(b => b.code === bankCode && b.active): the first such
\* entry, or undefined
findActiveBank(bankCode) ==
  LET hits == {i \in 1..Len(MOROCCAN_BANKS) :
                 MOROCCAN_BANKS[i].code = bankCode /\ MOROCCAN_BANKS[i].active}
  IN IF hits = {} THEN [found |-> FALSE, bank |-> MOROCCAN_BANKS[1]]
     ELSE [found |-> TRUE,
           bank |-> MOROCCAN_BANKS[CHOOSE i \in hits : \A j \in hits : i <= j]]

\* s.toUpperCase(), for strings of ASCII and full-width digits
toUpperCase(s) ==
  [i \in 1..Len(s) |-> IF s[i] >= 97 /\ s[i] <= 122 THEN s[i] - 32 ELSE s[i]]

\* /^MA\d{26}$/.test(s)
matchesMA26(s) ==
  /\ Len(s) = 28
  /\ SubSeq(s, 1, 2) = <<CH.M, CH.A>>
  /\ AllDigits(SubSeq(s, 3, 28))

\* a bug: the first four characters are left where they are
rearrangeIBAN_inPlace(cleanIBAN) == cleanIBAN

\* cleanIBAN.slice(4) + cleanIBAN.slice(0, 4)
rearrangeIBAN(cleanIBAN) == StrSliceFrom(cleanIBAN, 4) \o StrSlice(cleanIBAN, 0, 4)

\* rearranged.split('').map(c => /\d/.test(c) ? c : (c.charCodeAt(0) - 55)
\*   .toString()).join('')
RECURSIVE toNumeric(_)
toNumeric(rearranged) ==
  IF rearranged = <<>> THEN <<>>
  ELSE (IF IsDigit(Head(rearranged)) THEN <<Head(rearranged)>>
        ELSE IntToString(Head(rearranged) - 55))
         \o toNumeric(Tail(rearranged))

\* a bug: the remainder is not shifted by one decimal place
RECURSIVE ibanRemainder_noShift(_, _)
ibanRemainder_noShift(numeric, remainder) ==
  IF numeric = <<>> THEN remainder
  ELSE ibanRemainder_noShift(Tail(numeric),
                             (remainder + DigitVal(Head(numeric))) % 97)

\* for (i ...) remainder = (remainder * 10 + parseInt(numeric[i])) % 97
RECURSIVE ibanRemainder(_, _)
ibanRemainder(numeric, remainder) ==
  IF numeric = <<>> THEN remainder
  ELSE ibanRemainder(Tail(numeric), (remainder * 10 + DigitVal(Head(numeric))) % 97)

BankValidationError ==
  [INVALID_INPUT_TYPE |-> "BANK_001", INVALID_IBAN_FORMAT |-> "BANK_002",
   INVALID_BANK_CODE |-> "BANK_003", INVALID_IBAN_CHECKSUM |-> "BANK_004",
   INVALID_RIB_FORMAT |-> "BANK_005", INVALID_RIB_LENGTH |-> "BANK_006",
   INVALID_RIB_CHECKSUM |-> "BANK_007", BANK_NOT_FOUND |-> "BANK_008"]

\* throw new BankValidationException(code, message, details)
BankValidationException(code, message) ==
  [threw |-> TRUE, name |-> "BankValidationException", code |-> code,
   message |-> message]

\* a bug: only a BankValidationException is turned into false, any other
\* exception escapes
catchBankError_rethrowOthers(outcome) ==
  IF outcome.threw /\ outcome.name = "BankValidationException"
  THEN Returned(FALSE) ELSE outcome

\* catch (error) { if (error instanceof BankValidationException)
\*   { return false; } return false; }
catchBankError(outcome) ==
  IF outcome.threw THEN Returned(FALSE) ELSE outcome

\* the try block of isValidIBAN
isValidIBANTry(iban) ==
  IF ~TypeofString(iban)
  THEN BankValidationException(BankValidationError.INVALID_INPUT_TYPE,
                               "IBAN must be a string")
  ELSE
  Bind(toUpperCase(SelectSeq(iban.str, LAMBDA c : c \notin StrWhiteSpace)),
       LAMBDA cleanIBAN :
  IF ~matchesMA26(cleanIBAN)
  THEN BankValidationException(BankValidationError.INVALID_IBAN_FORMAT,
                               "Invalid IBAN format")
  ELSE
  Bind(findActiveBank(Substring(cleanIBAN, 4, 7)), LAMBDA found :
  IF ~found.found
  THEN BankValidationException(BankValidationError.INVALID_BANK_CODE,
                               "Invalid or inactive bank code")
  ELSE IF ~ibanRegexTest(found.bank, cleanIBAN)
  THEN BankValidationException(BankValidationError.INVALID_IBAN_FORMAT,
                               "IBAN does not match bank-specific format")
  ELSE
  Bind(ibanRemainder(toNumeric(rearrangeIBAN(cleanIBAN)), 0), LAMBDA remainder :
  IF remainder # 1
  THEN BankValidationException(BankValidationError.INVALID_IBAN_CHECKSUM,
                               "Invalid IBAN checksum")
  ELSE Returned(TRUE))))

\* isValidIBAN(iban): every exception is caught and turned into false
isValidIBAN(iban) == catchBankError(isValidIBANTry(iban))

\* the number NaN
NaN == 0 - 1

\* the value of a string of digits
RECURSIVE DecimalValue(_, _)
DecimalValue(s, acc) ==
  IF s = <<>> THEN acc ELSE DecimalValue(Tail(s), acc * 10 + DigitVal(Head(s)))

\* parseInt(s, 10): leading white space and a sign are skipped, the digits
\* that follow are read, NaN when there is none
parseInt10(s) ==
  LET t == TrimStart(s)
      signed == t # <<>> /\ Head(t) \in {CH.plus, CH.minus}
      u == IF signed THEN Tail(t) ELSE t
      ends == {i \in 0..Len(u) : \A j \in 1..i : IsDigit(u[j])}
      n == CHOOSE i \in ends : \A j \in ends : j <= i
      v == DecimalValue(SubSeq(u, 1, n), 0)
  IN IF n = 0 THEN NaN
     ELSE IF signed /\ Head(t) = CH.minus THEN 0 - v ELSE v

\* for (i = 0; i < payload.length; i += 7)
\*   chunks.push(parseInt(payload.slice(i, i + 7), 10))
RECURSIVE ribChunks(_)
ribChunks(payload) ==
  IF payload = <<>> THEN <<>>
  ELSE <<parseInt10(StrSlice(payload, 0, 7))>> \o ribChunks(StrSliceFrom(payload, 7))

\* chunk.toString().length for a chunk that is not negative
RECURSIVE toStringLength(_)
toStringLength(chunk) ==
  IF chunk = NaN THEN 3
  ELSE IF chunk < 10 THEN 1 ELSE 1 + toStringLength(chunk \div 10)

\* Math.pow(10, n)
RECURSIVE Pow10(_)
Pow10(n) == IF n = 0 THEN 1 ELSE 10 * Pow10(n - 1)

\* for (const chunk of chunks) remainder =
\*   (remainder * Math.pow(10, chunk.toString().length) + chunk) % 97
RECURSIVE ribRemainder(_, _)
ribRemainder(chunks, remainder) ==
  IF chunks = <<>> THEN remainder
  ELSE IF remainder = NaN \/ Head(chunks) = NaN THEN NaN
  ELSE ribRemainder(Tail(chunks),
                    (remainder * Pow10(toStringLength(Head(chunks))) + Head(chunks)) % 97)

\* a bug: the remainder itself is taken as the key
expectedKey_remainder(remainder) == remainder

\* const expectedKey = (97 - remainder) % 97
expectedKey(remainder) == (97 - remainder) % 97

\* the try block of isValidRIB; rib.replace raises a TypeError on a value
\* without String methods; NaN differs from every number
isValidRIBTry(rib) ==
  IF ~HasStringMethods(rib) THEN [threw |-> TRUE, name |-> "TypeError"]
  ELSE
  Bind(SelectSeq(rib.str, LAMBDA c : c \notin StrWhiteSpace \cup {CH.minus}),
       LAMBDA cleanRIB :
  Bind(findActiveBank(Substring(cleanRIB, 0, 3)), LAMBDA found :
  IF ~found.found
  THEN BankValidationException(BankValidationError.BANK_NOT_FOUND,
                               "Invalid or inactive bank code")
  ELSE IF Len(cleanRIB) # found.bank.ribLength
  THEN BankValidationException(BankValidationError.INVALID_RIB_LENGTH,
                               "Invalid RIB length")
  ELSE IF ~ribRegexTest(found.bank, cleanRIB)
  THEN BankValidationException(BankValidationError.INVALID_RIB_FORMAT,
                               "RIB does not match bank-specific format")
  ELSE
  Bind(parseInt10(StrSliceFrom(cleanRIB, 0 - 2)), LAMBDA actualKey :
  Bind(ribRemainder(ribChunks(StrSlice(cleanRIB, 0, 0 - 2)), 0), LAMBDA remainder :
  IF remainder = NaN \/ actualKey = NaN \/ expectedKey(remainder) # actualKey
  THEN BankValidationException(BankValidationError.INVALID_RIB_CHECKSUM,
                               "Invalid RIB checksum")
  ELSE Returned(TRUE)))))

\* isValidRIB(rib): every exception, the TypeError of a value without
\* replace included, is caught and turned into false
isValidRIB(rib) == catchBankError(isValidRIBTry(rib))

\* getBankDetails(code): the active bank of the code segment, or undefined
\* (found = FALSE) when there is none or when an exception was caught
getBankDetails(code) ==
  IF ~HasStringMethods(code)
  THEN Returned([found |-> FALSE, bank |-> MOROCCAN_BANKS[1]])
  ELSE
  Bind(SelectSeq(code.str, LAMBDA c : c \notin StrWhiteSpace \cup {CH.minus}),
       LAMBDA cleanCode :
  LET startsWithMA == Len(cleanCode) >= 2 /\ SubSeq(cleanCode, 1, 2) = <<CH.M, CH.A>>
      bankCode == IF startsWithMA THEN Substring(cleanCode, 4, 7)
                  ELSE Substring(cleanCode, 0, 3)
  IN Returned(findActiveBank(bankCode)))

(***************************************************************************)
(* validators/phone-number.ts: the LRU cache.  A Map is the sequence of    *)
(* its entries in insertion order; the stored values are objects.          *)
(***************************************************************************)
MapHas(entries, key) == \E i \in 1..Len(entries) : entries[i].key = key

MapGet(entries, key) ==
  LET i == CHOOSE i \in 1..Len(entries) : entries[i].key = key
  IN entries[i].value

MapDelete(entries, key) == SelectSeq(entries, LAMBDA e : e.key # key)

\* Map.prototype.set keeps the position of a key that is already present
MapSet(entries, key, value) ==
  IF MapHas(entries, key)
  THEN [i \in 1..Len(entries) |->
          IF entries[i].key = key THEN [key |-> key, value |-> value]
          ELSE entries[i]]
  ELSE Append(entries, [key |-> key, value |-> value])

\* new LRUCache(maxSize, cleanupInterval), constructed at time t
LRUCache(maxSize, cleanupInterval, t) ==
  [cache |-> <<>>, maxSize |-> maxSize, lastCleanup |-> t,
   cleanupInterval |-> cleanupInterval]

\* get(key): [hit, value, this]; a hit moves the entry to the end
LRUCache_get(this, key) ==
  IF MapHas(this.cache, key)
  THEN LET value == MapGet(this.cache, key)
       IN [hit |-> TRUE, value |-> value,
           this |-> [this EXCEPT !.cache =
                       MapSet(MapDelete(this.cache, key), key, value)]]
  ELSE [hit |-> FALSE, value |-> FALSE, this |-> this]

\* shouldCleanup(): [due, this]
LRUCache_shouldCleanup(this, t) ==
  IF t - this.lastCleanup >= this.cleanupInterval
  THEN [due |-> TRUE, this |-> [this EXCEPT !.lastCleanup = t]]
  ELSE [due |-> FALSE, this |-> this]

LRUCache_clear(this) == [this EXCEPT !.cache = <<>>]

evictFirst_never(entries, maxSize) == entries

\* the eviction step of set: the first key goes when the cache is full
evictFirst(entries, maxSize) ==
  IF Len(entries) >= maxSize /\ Len(entries) > 0
  THEN MapDelete(entries, entries[1].key)
  ELSE entries

LRUCache_set(this, key, value, t) ==
  LET checked == LRUCache_shouldCleanup(this, t)
      cleaned == IF checked.due THEN LRUCache_clear(checked.this)
                 ELSE checked.this
  IN [cleaned EXCEPT !.cache =
        MapSet(evictFirst(cleaned.cache, cleaned.maxSize), key, value)]

(***************************************************************************)
(* validators/phone-number.ts: validatePhone, formatPhone, getPhoneDetails *)
(* with the caches they read and write passed in and handed back.          *)
(***************************************************************************)
COUNTRY_CODE == Digits(<<2, 1, 2>>)

MAX_INPUT_LENGTH == 20

ERRORS ==
  [REQUIRED |-> "Phone number is required",
   INVALID_FORMAT |-> "Invalid phone number format",
   EMPTY_INPUT |-> "Phone number cannot be empty"]

\* !value for the values passed as a phone number
IsFalsy(v) ==
  \/ v.type \in {"null", "undefined"}
  \/ (v.type = "string" /\ v.str = <<>>)

StartsWith(s, p) == Len(s) >= Len(p) /\ SubSeq(s, 1, Len(p)) = p

\* normalizeInput(input): null, or the digits without their prefix
normalizeInput(input) ==
  IF IsFalsy(input) THEN JSNull
  ELSE IF input.type # "string" \/ Len(Trim(input.str)) = 0 THEN JSNull
  ELSE IF Len(input.str) > MAX_INPUT_LENGTH THEN JSNull
  ELSE
  Bind(StripNonDigits(SelectSeq(input.str, LAMBDA c :
         c \notin StrWhiteSpace \cup {CH.minus, CH.dot, CH.lparen, CH.rparen, CH.plus})),
       LAMBDA normalized :
  IF StartsWith(normalized, Digits(<<0, 0, 2, 1, 2>>)) THEN JSString(StrSliceFrom(normalized, 5))
  ELSE IF StartsWith(normalized, Digits(<<2, 1, 2>>)) THEN JSString(StrSliceFrom(normalized, 3))
  ELSE IF StartsWith(normalized, Digits(<<0>>)) THEN JSString(StrSliceFrom(normalized, 1))
  ELSE JSString(normalized))

\* /^(?:(?:\+|00)212|0)?[567]\d{8}$/.test(s)
GENERAL_test(s) ==
  \E p \in {<<>>, <<CH.plus>> \o COUNTRY_CODE, Digits(<<0, 0>>) \o COUNTRY_CODE, Digits(<<0>>)} :
    /\ StartsWith(s, p)
    /\ Len(s) = Len(p) + 9
    /\ s[Len(p) + 1] \in {CH.zero + 5, CH.zero + 6, CH.zero + 7}
    /\ AllDigits(SubSeq(s, Len(p) + 2, Len(s)))

\* /^(?:0*|1*|(\d)\1{8}|12345678|87654321)$/.test(s)
FAKE_test(s) ==
  \/ \A i \in 1..Len(s) : s[i] = CH.zero
  \/ \A i \in 1..Len(s) : s[i] = CH.zero + 1
  \/ (Len(s) = 9 /\ IsDigit(s[1]) /\ \A i \in 1..Len(s) : s[i] = s[1])
  \/ s = Digits(<<1, 2, 3, 4, 5, 6, 7, 8>>)
  \/ s = Digits(<<8, 7, 6, 5, 4, 3, 2, 1>>)

\* /^d[lo-hi]/.test(s)
PrefixIn(s, d, lo, hi) ==
  /\ Len(s) >= 2
  /\ s[1] = CH.zero + d
  /\ s[2] >= CH.zero + lo
  /\ s[2] <= CH.zero + hi

detectOperator(normalizedNumber) ==
  IF PrefixIn(normalizedNumber, 5, 2, 3) \/ PrefixIn(normalizedNumber, 6, 0, 4) THEN "IAM"
  ELSE IF PrefixIn(normalizedNumber, 5, 6, 7) \/ PrefixIn(normalizedNumber, 6, 6, 6) THEN "ORANGE"
  ELSE IF PrefixIn(normalizedNumber, 5, 4, 5) \/ PrefixIn(normalizedNumber, 6, 5, 5) THEN "INWI"
  ELSE "UNKNOWN"

getPhoneType(normalizedNumber) ==
  IF Len(normalizedNumber) >= 1 /\ normalizedNumber[1] \in {CH.zero + 6, CH.zero + 7} THEN "MOBILE"
  ELSE IF Len(normalizedNumber) >= 1 /\ normalizedNumber[1] = CH.zero + 5 THEN "FIXED"
  ELSE "UNKNOWN"

cacheKey_prefix(normalized) == SubSeq(normalized, 1, 1)

\* const cacheKey = normalized
cacheKey(normalized) == normalized

\* validatePhone(phone) with validationCache = cache at time t:
\* [value |-> the result object, cache |-> validationCache afterwards]
validatePhone(phone, cache, t) ==
  IF IsFalsy(phone)
  THEN [value |-> [isValid |-> FALSE, error |-> ERRORS.EMPTY_INPUT], cache |-> cache]
  ELSE
  Bind(normalizeInput(phone), LAMBDA normalized :
  IF IsFalsy(normalized)
  THEN [value |-> [isValid |-> FALSE, error |-> ERRORS.INVALID_FORMAT], cache |-> cache]
  ELSE IF Len(normalized.str) # 9
  THEN [value |-> [isValid |-> FALSE, error |-> ERRORS.INVALID_FORMAT], cache |-> cache]
  ELSE
  Bind(LRUCache_get(cache, cacheKey(normalized.str)), LAMBDA cached :
  IF cached.hit THEN [value |-> cached.value, cache |-> cached.this]
  ELSE IF ~GENERAL_test(Digits(<<0>>) \o normalized.str)
  THEN [value |-> [isValid |-> FALSE, error |-> ERRORS.INVALID_FORMAT],
        cache |-> cached.this]
  ELSE
  Bind([isValid |-> TRUE,
        normalizedNumber |-> normalized.str,
        type |-> getPhoneType(normalized.str),
        operator |-> detectOperator(normalized.str),
        isFake |-> FAKE_test(normalized.str)], LAMBDA res :
  [value |-> res,
   cache |-> LRUCache_set(cached.this, cacheKey(normalized.str), res, t)])))

\* formatPhone(phone, format): [value |-> the string or null, cache]
formatPhone(phone, format, cache, t) ==
  IF IsFalsy(phone) THEN [value |-> JSNull, cache |-> cache]
  ELSE
  Bind(validatePhone(phone, cache, t), LAMBDA v :
  IF ~v.value.isValid THEN [value |-> JSNull, cache |-> v.cache]
  ELSE
  LET n == v.value.normalizedNumber
      sp == <<CH.space>>
  IN [cache |-> v.cache,
      value |->
        CASE format = "NATIONAL" -> JSString(Digits(<<0>>) \o n)
          [] format = "E164" -> JSString(<<CH.plus>> \o COUNTRY_CODE \o n)
          [] format = "RFC3966" ->
               JSString(<<CH.t, CH.e, CH.l, CH.colon, CH.plus>> \o COUNTRY_CODE
                        \o <<CH.minus>> \o n)
          [] format = "INTERNATIONAL" ->
               JSString(<<CH.plus>> \o COUNTRY_CODE \o sp \o SubSeq(n, 1, 2) \o sp
                        \o SubSeq(n, 3, 4) \o sp \o SubSeq(n, 5, 6) \o sp
                        \o SubSeq(n, 7, Len(n)))
          [] OTHER -> JSNull])

\* value || ''
OrEmpty(v) == IF IsFalsy(v) THEN <<>> ELSE v.str

\* getPhoneDetails(phone): [value, validationCache, detailsCache]
getPhoneDetails(phone, vCache, dCache, t) ==
  Bind(normalizeInput(phone), LAMBDA normalized :
  IF IsFalsy(normalized)
  THEN [value |-> [type |-> "UNKNOWN", operator |-> "UNKNOWN", region |-> "MA",
                   isValid |-> FALSE, isFake |-> TRUE,
                   formats |-> [national |-> <<>>, international |-> <<>>,
                                e164 |-> <<>>, rfc3966 |-> <<>>]],
        validationCache |-> vCache, detailsCache |-> dCache]
  ELSE
  Bind(LRUCache_get(dCache, cacheKey(normalized.str)), LAMBDA cached :
  IF cached.hit
  THEN [value |-> cached.value, validationCache |-> vCache,
        detailsCache |-> cached.this]
  ELSE
  Bind(validatePhone(phone, vCache, t), LAMBDA validation :
  Bind(formatPhone(phone, "NATIONAL", validation.cache, t), LAMBDA national :
  Bind(formatPhone(phone, "INTERNATIONAL", national.cache, t), LAMBDA international :
  Bind(formatPhone(phone, "E164", international.cache, t), LAMBDA e164 :
  Bind(formatPhone(phone, "RFC3966", e164.cache, t), LAMBDA rfc3966 :
  Bind([type |-> IF validation.value.isValid THEN validation.value.type ELSE "UNKNOWN",
        operator |-> IF validation.value.isValid THEN validation.value.operator
                     ELSE "UNKNOWN",
        region |-> "MA",
        isValid |-> validation.value.isValid,
        isFake |-> IF validation.value.isValid THEN validation.value.isFake ELSE FALSE,
        formats |-> [national |-> OrEmpty(national.value),
                     international |-> OrEmpty(international.value),
                     e164 |-> OrEmpty(e164.value),
                     rfc3966 |-> OrEmpty(rfc3966.value)]], LAMBDA res :
  [value |-> res,
   validationCache |-> rfc3966.cache,
   detailsCache |-> LRUCache_set(cached.this, cacheKey(normalized.str), res, t)]))))))))

\* the alternatives of (?:\+212|00212|0)? in the order they are tried
PhonePrefixes ==
  <<(<<CH.plus>> \o COUNTRY_CODE), (Digits(<<0, 0>>) \o COUNTRY_CODE), Digits(<<0>>), <<>>>>

\* length of the match of /(?:\+212|00212|0)?[567]\d{8}/ that starts at
\* index i of text, 0 when there is none
MatchLengthAt(text, i) ==
  LET fits(p) ==
        /\ i + Len(p) + 8 <= Len(text)
        /\ SubSeq(text, i, i + Len(p) - 1) = p
        /\ text[i + Len(p)] \in {CH.zero + 5, CH.zero + 6, CH.zero + 7}
        /\ AllDigits(SubSeq(text, i + Len(p) + 1, i + Len(p) + 8))
      ok == {k \in 1..Len(PhonePrefixes) : fits(PhonePrefixes[k])}
  IN IF ok = {} THEN 0
     ELSE Len(PhonePrefixes[CHOOSE k \in ok : \A j \in ok : k <= j]) + 9

\* text.match(phonePattern) || [] from index i on: the matches left to right
RECURSIVE MatchAll(_, _)
MatchAll(text, i) ==
  IF i > Len(text) THEN <<>>
  ELSE Bind(MatchLengthAt(text, i), LAMBDA n :
         IF n = 0 THEN MatchAll(text, i + 1)
         ELSE <<SubSeq(text, i, i + n - 1)>> \o MatchAll(text, i + n))

\* [...new Set(matches)]: the first occurrence of each match, in order
Unique(matches) ==
  SelectSeq([i \in 1..Len(matches) |->
               [m |-> matches[i],
                first |-> \A j \in 1..(i - 1) : matches[j] # matches[i]]],
            LAMBDA e : e.first)

\* the map and filter of extractPhoneNumbers over the matches from index i on
RECURSIVE extractFrom(_, _, _, _, _)
extractFrom(matches, i, found, cache, t) ==
  IF i > Len(matches) THEN [value |-> found, cache |-> cache]
  ELSE Bind(validatePhone(JSString(matches[i].m), cache, t), LAMBDA v :
         extractFrom(matches, i + 1,
                     IF v.value.isValid /\ ~v.value.isFake
                     THEN Append(found, Digits(<<0>>) \o v.value.normalizedNumber)
                     ELSE found,
                     v.cache, t))

\* extractPhoneNumbers(text): [value |-> the array, cache]
extractPhoneNumbers(text, cache, t) ==
  IF text.type # "string" THEN [value |-> <<>>, cache |-> cache]
  ELSE extractFrom(Unique(MatchAll(text.str, 1)), 1, <<>>, cache, t)

\* maskPhone(phone, maskChar): [value |-> the string or null, cache]
maskPhone(phone, maskChar, cache, t) ==
  Bind(validatePhone(phone, cache, t), LAMBDA v :
  IF ~v.value.isValid THEN [value |-> JSNull, cache |-> v.cache]
  ELSE
  LET n == v.value.normalizedNumber
      mask == IF maskChar = <<>> THEN <<>> ELSE [i \in 1..6 |-> maskChar[1]]
      sp == <<CH.space>>
  IN [value |-> JSString(<<CH.plus>> \o COUNTRY_CODE \o sp \o SubSeq(n, 1, 2) \o sp
                         \o mask \o sp \o StrSliceFrom(n, 0 - 1)),
      cache |-> v.cache])

\* The checked instances are small: CONFIG.MAX_CACHE_SIZE (10000 entries) and
\* CONFIG.CACHE_CLEANUP_INTERVAL (3600000 ms) are scaled down to MaxCacheSize
\* entries and CleanupInterval clock ticks, and the clock stops at MaxTime.
MaxCacheSize == 3

CleanupInterval == 2

MaxTime == 3

\* capacity of the two caches of the phone module in the checked instance
PhoneCacheSize == 2

\* nothing observed yet of the cache under test
NoGhost ==
  [recency |-> <<>>, key |-> <<>>, hadKey |-> FALSE, sizeBefore |-> 0,
   oldest |-> <<>>, removed |-> {}, elapsed |-> 0, cleanedAt |-> 0]

(***************************************************************************)
(* Inputs.  The callers' arguments are drawn from these sets.              *)
(***************************************************************************)
\* longest string of the free-form inputs
MaxLen == 3

\* longest separator passed to formatICE
MaxSepLen == 2

\* all strings over the alphabet with at most n code units
RECURSIVE StringsUpTo(_, _)
StringsUpTo(alphabet, n) ==
  IF n = 0 THEN {<<>>}
  ELSE LET shorter == StringsUpTo(alphabet, n - 1)
       IN shorter \cup {<<c>> \o s : c \in alphabet, s \in {x \in shorter : Len(x) = n - 1}}

FreeAlphabet == {CH.zero, CH.zero + 5, CH.zero + 6, CH.nine, CH.space, CH.minus, CH.A}

FreeStrings == StringsUpTo(FreeAlphabet, MaxLen)

Companies ==
  {Digits(<<0, 0, 0, 0, 0, 0, 0, 0, 0>>), Digits(<<1, 2, 3, 4, 5, 6, 7, 8, 9>>),
   Digits(<<9, 9, 9, 9, 9, 9, 9, 9, 9>>), Digits(<<0, 0, 1, 6, 6, 3, 2, 5, 2>>),
   Digits(<<9, 8, 7, 6, 5, 4, 3, 2, 1>>)}

Establishments ==
  {Digits(<<0, 0, 0, 0>>), Digits(<<0, 0, 0, 1>>), Digits(<<9, 9, 9, 9>>)}

Payloads == {c \o e : c \in Companies, e \in Establishments}

AllControls == {Digits(<<a, b>>) : a \in 0..9, b \in 0..9}

\* every payload with every two-digit suffix
RawICEs == {p \o k : p \in Payloads, k \in AllControls}

\* the decimal value of a digit string modulo 97, by positional weights
RECURSIVE Pow10Mod97(_)
Pow10Mod97(n) == IF n = 0 THEN 1 ELSE (10 * Pow10Mod97(n - 1)) % 97

RECURSIVE WeightedSum(_, _)
WeightedSum(s, i) ==
  IF i > Len(s) THEN 0
  ELSE DigitVal(s[i]) * Pow10Mod97(Len(s) - i) + WeightedSum(s, i + 1)

RefMod97(s) == WeightedSum(s, 1) % 97

\* the two-digit control that belongs to a 13-digit payload
RefControl(p) == Digits(<<RefMod97(p) \div 10, RefMod97(p) % 10>>)

ValidICEs == {p \o RefControl(p) : p \in Payloads}

\* identifiers to be decorated: the valid ones and two wrong controls each
SampleICEs ==
  ValidICEs \cup {p \o k : p \in Payloads, k \in {Digits(<<0, 0>>), Digits(<<6, 1>>)}}

NoiseChars == {CH.space, CH.minus, CH.slash, CH.A, CH.fullwidth1}

InsertAt(s, i, c) == SubSeq(s, 1, i) \o <<c>> \o SubSeq(s, i + 1, Len(s))

\* one noise character anywhere in a sample identifier
Noisy == {InsertAt(s, i, c) : s \in SampleICEs, i \in {0, 1, 3, 9, 12, 13, 14, 15},
                               c \in NoiseChars}

\* a digit of a sample identifier replaced by a letter
Lettered == {[s EXCEPT ![i] = CH.A] : s \in SampleICEs, i \in {1, 9, 13, 14, 15}}

\* one digit short and one digit long
OffByOne == {SubSeq(s, 1, ICE_LENGTH - 1) : s \in SampleICEs}
              \cup {s \o <<d>> : s \in SampleICEs, d \in {CH.zero, CH.nine}}

\* written with separators at the group boundaries, with or without a label
Spelled ==
  {lab \o SubSeq(s, 1, 3) \o g \o SubSeq(s, 4, 6) \o g \o SubSeq(s, 7, 9) \o <<c>>
       \o SubSeq(s, 10, 13) \o <<c>> \o SubSeq(s, 14, 15) :
     s \in ValidICEs, c \in {CH.space, CH.minus, CH.dot},
     g \in {<<>>, <<CH.space>>, <<CH.underscore>>},
     lab \in {<<>>, <<CH.I, CH.C, CH.E>>, <<CH.i, CH.c, CH.e, CH.space>>}}

\* the label inside or after the digits, in mixed letter case
Labelled ==
  {SubSeq(s, 1, k) \o lab \o SubSeq(s, k + 1, Len(s)) :
     s \in ValidICEs, k \in {3, 15},
     lab \in {<<CH.I, CH.C, CH.E>>, <<CH.i, CH.C, CH.e, CH.space>>}}

InputStrings ==
  FreeStrings \cup RawICEs \cup Noisy \cup Lettered \cup OffByOne \cup Spelled \cup Labelled

NonStrings ==
  {JSNull, JSUndefined, JSNumber, JSObject}
    \cup {JSStringObject(s) : s \in SampleICEs \cup {<<>>}}

InputValues == {JSString(s) : s \in InputStrings} \cup NonStrings

\* arguments of formatICE
FormatStrings ==
  {s \in SampleICEs \cup Spelled \cup OffByOne \cup Lettered \cup Noisy :
     s \in SampleICEs
     \/ (SubSeq(StripNonDigits(s), 1, 6) = Digits(<<1, 2, 3, 4, 5, 6>>)
         /\ (RefMod97(StripNonDigits(s)) < 20
             \/ (s \in Spelled /\ SubSeq(StripNonDigits(s), 10, 13) = Digits(<<0, 0, 0, 1>>))))}
    \cup StringsUpTo(FreeAlphabet, 1)

FormatInputs ==
  {JSString(s) : s \in FormatStrings}
    \cup {v \in NonStrings : Len(v.str) = 0 \/ v.str \in FormatStrings}

SepAlphabet == {CH.minus, CH.A, CH.zero + 1, CH.fullwidth1}

NoOptions ==
  [hasSeparator |-> FALSE, separator |-> <<>>, prefix |-> FALSE,
   groupCompanyDigits |-> FALSE]

FormatOptions ==
  {[hasSeparator |-> h, separator |-> s, prefix |-> p, groupCompanyDigits |-> g] :
     h \in {TRUE}, s \in StringsUpTo(SepAlphabet, MaxSepLen), p \in BOOLEAN, g \in BOOLEAN}
  \cup {[NoOptions EXCEPT !.prefix = p, !.groupCompanyDigits = g] :
          p \in BOOLEAN, g \in BOOLEAN}

(***************************************************************************)
(* The state: the call in progress or last made (`call`), the call before  *)
(* it when its result was handed on (`prev`), and the outcome (`result`).  *)
(***************************************************************************)
NoCall == [op |-> "none", ice |-> JSUndefined, options |-> NoOptions]

Call(op, ice) == [op |-> op, ice |-> ice, options |-> NoOptions]

Init ==
  /\ pc = "idle"
  /\ call = NoCall
  /\ prev = NoCall
  /\ result = Returned(FALSE)
  /\ now = 0
  /\ lru = LRUCache(MaxCacheSize, CleanupInterval, 0)
  /\ ghost = NoGhost
  /\ validationCache = LRUCache(PhoneCacheSize, CleanupInterval, 0)
  /\ detailsCache = LRUCache(PhoneCacheSize, CleanupInterval, 0)

ValidateICE ==
  /\ pc = "idle"
  /\ \E ice \in InputValues :
       /\ call' = Call("validateICE", ice)
       /\ result' = Returned(validateICE(ice))
  /\ pc' = "done"
  /\ UNCHANGED cacheVars
  /\ UNCHANGED prev

IsValidICE ==
  /\ pc = "idle"
  /\ \E ice \in InputValues :
       /\ call' = Call("isValidICE", ice)
       /\ result' = Returned(isValidICE(ice))
  /\ pc' = "done"
  /\ UNCHANGED cacheVars
  /\ UNCHANGED prev

SanitizeICE ==
  /\ pc = "idle"
  /\ \E ice \in InputValues :
       /\ call' = Call("sanitizeICE", ice)
       /\ result' = sanitizeICE(ice)
  /\ pc' = "done"
  /\ UNCHANGED cacheVars
  /\ UNCHANGED prev

ValidateControl ==
  /\ pc = "idle"
  /\ \E ice \in InputValues :
       /\ call' = Call("validateControl", ice)
       /\ result' = validateControl(ice)
  /\ pc' = "done"
  /\ UNCHANGED cacheVars
  /\ UNCHANGED prev

CalculateControl ==
  /\ pc = "idle"
  /\ \E s \in InputStrings :
       /\ call' = Call("calculateControl", JSString(s))
       /\ result' = calculateControl(s)
  /\ pc' = "done"
  /\ UNCHANGED cacheVars
  /\ UNCHANGED prev

FormatICE ==
  /\ pc = "idle"
  /\ \E ice \in FormatInputs, options \in FormatOptions :
       /\ call' = [op |-> "formatICE", ice |-> ice, options |-> options]
       /\ result' = formatICE(ice, options)
  /\ pc' = "done"
  /\ UNCHANGED cacheVars
  /\ UNCHANGED prev

UnformatICE ==
  /\ pc = "idle"
  /\ \E ice \in InputValues :
       /\ call' = Call("unformatICE", ice)
       /\ result' = unformatICE(ice)
  /\ pc' = "done"
  /\ UNCHANGED cacheVars
  /\ UNCHANGED prev

\* the caller hands the string formatICE returned to unformatICE
UnformatFormatted ==
  /\ pc = "done"
  /\ call.op = "formatICE"
  /\ ~result.threw
  /\ prev' = call
  /\ call' = Call("unformatICE", JSString(result.value))
  /\ result' = unformatICE(JSString(result.value))
  /\ pc' = "chained"
  /\ UNCHANGED cacheVars

\* the caller hands the string sanitizeICE returned to sanitizeICE again
SanitizeSanitized ==
  /\ pc = "done"
  /\ call.op = "sanitizeICE"
  /\ ~result.threw
  /\ prev' = call
  /\ call' = Call("sanitizeICE", JSString(result.value))
  /\ result' = sanitizeICE(JSString(result.value))
  /\ pc' = "chained"
  /\ UNCHANGED cacheVars

\* the caller is done with the result
Reset ==
  /\ pc \in {"done", "chained"}
  /\ pc' = "idle"
  /\ UNCHANGED cacheVars
  /\ call' = NoCall
  /\ prev' = NoCall
  /\ result' = Returned(FALSE)

Next ==
  \/ ValidateICE
  \/ IsValidICE
  \/ SanitizeICE
  \/ ValidateControl
  \/ CalculateControl
  \/ FormatICE
  \/ UnformatICE
  \/ UnformatFormatted
  \/ SanitizeSanitized
  \/ Reset

Spec == Init /\ [][Next]_vars

(***************************************************************************)
(* A caller generating test identifiers and validating them.               *)
(***************************************************************************)
\* outcomes of the thirteen draws: the sample payloads, and 0 or 9 at some
\* places of the company and the establishment
RandomDraws ==
  {[i \in 1..13 |-> DigitVal(p[i])] : p \in Payloads}
    \cup {[i \in 1..13 |-> IF i \in S THEN 9 ELSE 0] : S \in SUBSET {1, 5, 9, 10, 13}}

GenerationOptions ==
  {[format |-> f, hasSeparator |-> o.hasSeparator, separator |-> o.separator,
    prefix |-> o.prefix, groupCompanyDigits |-> o.groupCompanyDigits] :
     f \in BOOLEAN, o \in FormatOptions}

GenerateTestICE ==
  /\ pc = "idle"
  /\ \E options \in GenerationOptions, random \in RandomDraws :
       /\ call' = [op |-> "generateTestICE", ice |-> JSUndefined,
                   options |-> options, random |-> random]
       /\ result' = generateTestICE(options, random)
  /\ pc' = "done"
  /\ UNCHANGED cacheVars
  /\ UNCHANGED prev

\* the caller hands the generated string to validateICE
ValidateGenerated ==
  /\ pc = "done"
  /\ call.op = "generateTestICE"
  /\ ~result.threw
  /\ prev' = call
  /\ call' = Call("validateICE", JSString(result.value))
  /\ result' = Returned(validateICE(JSString(result.value)))
  /\ pc' = "chained"
  /\ UNCHANGED cacheVars

NextGenerate ==
  \/ GenerateTestICE
  \/ ValidateGenerated
  \/ Reset

SpecGenerate == Init /\ [][NextGenerate]_vars

(***************************************************************************)
(* A caller extracting the components of identifiers, with validateICE or  *)
(* with the mocked validator of the extractor tests.                       *)
(***************************************************************************)
\* the results the mocked validator is made to return: a refusal, a valid
\* result without components, and valid results with components of any
\* widths around 9, 4 and 2
MockedValidations ==
  {[isValid |-> FALSE, sanitized |-> Digits(<<1, 2, 3>>), hasComponents |-> FALSE,
    components |-> NoComponents, hasError |-> TRUE,
    error |-> [code |-> "TEST",
               message |-> "Cannot extract elements from invalid ICE number",
               hasDetails |-> FALSE, details |-> NoDetails]],
   [isValid |-> TRUE, sanitized |-> Digits(<<1, 2, 3, 4, 5, 6, 7, 8, 9, 0, 0, 0, 1, 3, 1>>),
    hasComponents |-> FALSE, components |-> NoComponents,
    hasError |-> FALSE, error |-> NoError]}
  \cup
  {[isValid |-> TRUE, sanitized |-> company \o establishment \o control,
    hasComponents |-> TRUE,
    components |-> [company |-> company, establishment |-> establishment,
                    control |-> control],
    hasError |-> FALSE, error |-> NoError] :
     company \in {SubSeq(Digits(<<1, 2, 3, 4, 5, 6, 7, 8, 9, 0>>), 1, n) :
                    n \in {0, 3, 8, 9, 10}},
     establishment \in {SubSeq(Digits(<<0, 0, 0, 1, 0>>), 1, n) : n \in {0, 3, 4, 5}},
     control \in {SubSeq(Digits(<<3, 1, 0>>), 1, n) : n \in 0..3}}

ExtractICEComponents ==
  /\ pc = "idle"
  /\ \E input \in InputValues :
       /\ call' = [op |-> "extractICEComponents", ice |-> input,
                   options |-> NoOptions, mocked |-> FALSE,
                   validation |-> NoValidation]
       /\ result' = extractICEComponents(input)
  /\ pc' = "done"
  /\ UNCHANGED cacheVars
  /\ UNCHANGED prev

\* validateICE is replaced by a mock returning a prepared result
ExtractWithMockedValidator ==
  /\ pc = "idle"
  /\ \E input \in {JSString(s) : s \in SampleICEs \cup OffByOne},
        validation \in MockedValidations :
       /\ call' = [op |-> "extractICEComponents", ice |-> input,
                   options |-> NoOptions, mocked |-> TRUE,
                   validation |-> validation]
       /\ result' = extractFromValidation(input, validation)
  /\ pc' = "done"
  /\ UNCHANGED cacheVars
  /\ UNCHANGED prev

NextExtract ==
  \/ ExtractICEComponents
  \/ ExtractWithMockedValidator
  \/ Reset

SpecExtract == Init /\ [][NextExtract]_vars

(***************************************************************************)
(* A caller validating bank identifiers: an IBAN, then the same IBAN with  *)
(* two neighbouring digits exchanged; a RIB.                               *)
(***************************************************************************)
\* account numbers of 24 digits: those of the tests, one of each other
\* bank of the table, one of no bank
SampleRIBs ==
  {Digits(<<0, 0, 7, 1, 0, 8, 0, 0, 0, 7, 7, 9, 2, 0, 0, 0, 3, 0, 3, 1, 2, 0, 7, 1>>),
   Digits(<<0, 0, 7, 0, 0, 0, 0, 0, 0, 0, 0, 0, 0, 0, 0, 0, 0, 0, 0, 0, 0, 1, 4, 9>>),
   Digits(<<0, 0, 7, 9, 9, 9, 9, 9, 9, 9, 9, 0, 0, 0, 0, 0, 0, 0, 0, 0, 0, 0, 0, 0>>),
   Digits(<<0, 1, 1, 7, 8, 0, 0, 0, 0, 0, 1, 2, 3, 4, 5, 6, 7, 8, 9, 0, 1, 2, 3, 4>>),
   Digits(<<0, 5, 0, 8, 1, 0, 0, 0, 0, 0, 0, 0, 0, 0, 0, 0, 0, 1, 2, 3, 4, 5, 6, 7>>),
   Digits(<<9, 9, 9, 0, 0, 0, 0, 0, 0, 0, 0, 0, 0, 0, 0, 0, 0, 0, 0, 0, 0, 1, 4, 9>>)}

TwoDigits == {Digits(<<a, b>>) : a \in 0..9, b \in 0..9}

\* written in groups of four separated by sep
RECURSIVE InGroupsOfFour(_, _)
InGroupsOfFour(s, sep) ==
  IF Len(s) <= 4 THEN s
  ELSE SubSeq(s, 1, 4) \o sep \o InGroupsOfFour(SubSeq(s, 5, Len(s)), sep)

\* every check-digit pair before every sample account number, in upper or
\* lower case, in one piece or in groups of four; and strings one digit
\* short, one digit long, or with a letter among the digits
IBANStrings ==
  LET plain == {ma \o k \o r : ma \in {<<CH.M, CH.A>>, <<CH.m, CH.a>>},
                                k \in TwoDigits, r \in SampleRIBs}
      odd == {<<CH.M, CH.A>> \o k \o r : k \in {Digits(<<6, 4>>)}, r \in SampleRIBs}
  IN plain \cup {InGroupsOfFour(s, <<CH.space>>) : s \in plain}
       \cup {SubSeq(s, 1, 27) : s \in odd} \cup {s \o <<CH.zero>> : s \in odd}
       \cup {[s EXCEPT ![20] = CH.A] : s \in odd}

\* every key after the first 22 digits of every sample account number, in
\* one piece or in groups of four separated by a space or a hyphen; and
\* strings one digit short, one digit long, or with a letter
RIBStrings ==
  LET plain == {SubSeq(r, 1, 22) \o k : r \in SampleRIBs, k \in TwoDigits}
  IN plain \cup {InGroupsOfFour(s, sep) : s \in plain, sep \in {<<CH.space>>, <<CH.minus>>}}
       \cup {SubSeq(s, 1, 23) : s \in SampleRIBs} \cup {s \o <<CH.zero>> : s \in SampleRIBs}
       \cup {[s EXCEPT ![20] = CH.A] : s \in SampleRIBs}

BankInputs(strings) ==
  {JSString(s) : s \in strings} \cup {JSNull, JSUndefined, JSNumber, JSObject}
    \cup {JSStringObject(s) : s \in strings \cap (SampleRIBs \cup
             {<<CH.M, CH.A, CH.zero + 6, CH.zero + 4>> \o r : r \in SampleRIBs})}

IsValidIBAN ==
  /\ pc = "idle"
  /\ \E iban \in BankInputs(IBANStrings) :
       /\ call' = Call("isValidIBAN", iban)
       /\ result' = isValidIBAN(iban)
  /\ pc' = "done"
  /\ UNCHANGED cacheVars
  /\ UNCHANGED prev

\* the caller exchanges two neighbouring digits of an accepted IBAN and
\* validates again
IsValidTransposedIBAN ==
  /\ pc = "done"
  /\ call.op = "isValidIBAN"
  /\ ~result.threw
  /\ result.value
  /\ \E i \in 1..(Len(call.ice.str) - 1) :
       /\ IsDigit(call.ice.str[i])
       /\ IsDigit(call.ice.str[i + 1])
       /\ call.ice.str[i] # call.ice.str[i + 1]
       /\ LET transposed ==
                JSString([call.ice.str EXCEPT ![i] = call.ice.str[i + 1],
                                              ![i + 1] = call.ice.str[i]])
          IN /\ call' = Call("isValidIBAN", transposed)
             /\ result' = isValidIBAN(transposed)
  /\ prev' = call
  /\ pc' = "chained"
  /\ UNCHANGED cacheVars

IsValidRIB ==
  /\ pc = "idle"
  /\ \E rib \in BankInputs(RIBStrings) :
       /\ call' = Call("isValidRIB", rib)
       /\ result' = isValidRIB(rib)
  /\ pc' = "done"
  /\ UNCHANGED cacheVars
  /\ UNCHANGED prev

\* the caller replaces one digit of an accepted RIB by another digit and
\* validates again
IsValidAlteredRIB ==
  /\ pc = "done"
  /\ call.op = "isValidRIB"
  /\ ~result.threw
  /\ result.value
  /\ \E i \in 1..Len(call.ice.str), d \in 48..57 :
       /\ IsDigit(call.ice.str[i])
       /\ call.ice.str[i] # d
       /\ LET altered == [call.ice EXCEPT !.str[i] = d]
          IN /\ call' = Call("isValidRIB", altered)
             /\ result' = isValidRIB(altered)
  /\ prev' = call
  /\ pc' = "chained"
  /\ UNCHANGED cacheVars

\* the caller writes one separator between two characters of an accepted
\* IBAN or RIB and validates again with the same validator
IsValidSeparated ==
  /\ pc = "done"
  /\ call.op \in {"isValidIBAN", "isValidRIB"}
  /\ ~result.threw
  /\ result.value
  /\ \E i \in 1..(Len(call.ice.str) - 1),
        c \in {CH.space, CH.minus, CH.slash, CH.dot, CH.underscore} :
       LET separated == [call.ice EXCEPT !.str = InsertAt(call.ice.str, i, c)]
       IN /\ call' = Call(call.op, separated)
          /\ result' = IF call.op = "isValidIBAN" THEN isValidIBAN(separated)
                        ELSE isValidRIB(separated)
  /\ prev' = call
  /\ pc' = "chained"
  /\ UNCHANGED cacheVars

\* the caller asks for the bank of an identifier a validator accepted
GetBankDetailsOfAccepted ==
  /\ pc = "done"
  /\ call.op \in {"isValidIBAN", "isValidRIB"}
  /\ ~result.threw
  /\ result.value
  /\ prev' = call
  /\ call' = Call("getBankDetails", call.ice)
  /\ result' = getBankDetails(call.ice)
  /\ pc' = "chained"
  /\ UNCHANGED cacheVars

NextBank ==
  \/ IsValidIBAN
  \/ IsValidTransposedIBAN
  \/ IsValidRIB
  \/ IsValidAlteredRIB
  \/ IsValidSeparated
  \/ GetBankDetailsOfAccepted
  \/ Reset

SpecBank == Init /\ [][NextBank]_vars

(***************************************************************************)
(* A caller typing an ICE digit by digit into a field that shows           *)
(* formatICEWhileTyping of what was typed so far.                          *)
(***************************************************************************)
\* most code units typed into the field
MaxTyped == 16

\* maxLength arguments: the default and those of the tests
TypingLimits == {10, 13, ICE_LENGTH}

\* what has been typed: the first digits of an ICE typed once or twice, or
\* an ICE with separators or letters among its digits
TypedStrings ==
  {SubSeq(ice \o ice, 1, n) : ice \in ValidICEs, n \in 0..MaxTyped}
    \cup {s \in Spelled \cup Lettered : Len(s) <= MaxTyped + 4}

FormatICEWhileTyping ==
  /\ pc = "idle"
  /\ \E input \in TypedStrings, maxLength \in TypingLimits :
       /\ call' = [op |-> "formatICEWhileTyping", ice |-> JSString(input),
                   options |-> NoOptions, maxLength |-> maxLength]
       /\ result' = formatICEWhileTyping(JSString(input), maxLength)
  /\ pc' = "done"
  /\ UNCHANGED cacheVars
  /\ UNCHANGED prev

NextTyping ==
  \/ FormatICEWhileTyping
  \/ Reset

SpecTyping == Init /\ [][NextTyping]_vars

(***************************************************************************)
(* LRUCache on its own: a cache of capacity 1..MaxCacheSize is driven by   *)
(* get, set and clear calls while the clock advances.  `ghost` records     *)
(* what an observer knows: the keys in order of their last use (a get that *)
(* hit, or a set), and of the last call its key, the keys it removed, the  *)
(* size before it and the time since the previous cleanup.                 *)
(***************************************************************************)
LRUKeys == {<<CH.a>>, <<CH.m>>, <<CH.A>>, <<CH.M>>}

LRUValues == {[isValid |-> TRUE], [isValid |-> FALSE]}

KeysOf(entries) == {entries[i].key : i \in 1..Len(entries)}

Without(keys, gone) == SelectSeq(keys, LAMBDA k : k \notin gone)

InitLRU ==
  /\ pc = "idle"
  /\ call = NoCall
  /\ prev = NoCall
  /\ result = Returned(FALSE)
  /\ now = 0
  /\ \E maxSize \in 1..MaxCacheSize :
       lru = LRUCache(maxSize, CleanupInterval, 0)
  /\ ghost = NoGhost
  /\ validationCache = LRUCache(PhoneCacheSize, CleanupInterval, 0)
  /\ detailsCache = LRUCache(PhoneCacheSize, CleanupInterval, 0)

\* what the observer notes of a call on `key` that turns the cache into `after`
Observe(key, after, used, cleanedAt) ==
  LET removed == KeysOf(lru.cache) \ (KeysOf(after.cache) \ {key})
      kept == Without(ghost.recency, removed \cup {key})
  IN [recency |-> IF used THEN Append(kept, key)
                  ELSE Without(ghost.recency, removed),
      key |-> key,
      hadKey |-> MapHas(lru.cache, key),
      sizeBefore |-> Len(lru.cache),
      oldest |-> IF ghost.recency = <<>> THEN <<>> ELSE Head(ghost.recency),
      removed |-> KeysOf(lru.cache) \ KeysOf(after.cache),
      elapsed |-> now - ghost.cleanedAt,
      cleanedAt |-> cleanedAt]

LRUGet ==
  /\ pc = "idle"
  /\ \E key \in LRUKeys :
       LET got == LRUCache_get(lru, key)
       IN /\ call' = Call("LRUCache.get", JSString(key))
          /\ result' = Returned([hit |-> got.hit, value |-> got.value])
          /\ lru' = got.this
          /\ ghost' = Observe(key, got.this, got.hit, ghost.cleanedAt)
  /\ pc' = "done"
  /\ UNCHANGED <<prev, now, validationCache, detailsCache>>

\* set returns nothing; the value handed in is seen in lru' only
LRUSet ==
  /\ pc = "idle"
  /\ \E key \in LRUKeys, value \in LRUValues :
       LET after == LRUCache_set(lru, key, value, now)
       IN /\ call' = Call("LRUCache.set", JSString(key))
          /\ result' = Returned(FALSE)
          /\ lru' = after
          /\ ghost' = Observe(key, after, TRUE,
                              IF now - ghost.cleanedAt >= CleanupInterval
                              THEN now ELSE ghost.cleanedAt)
  /\ pc' = "done"
  /\ UNCHANGED <<prev, now, validationCache, detailsCache>>

LRUClear ==
  /\ pc = "idle"
  /\ call' = Call("LRUCache.clear", JSUndefined)
  /\ result' = Returned(FALSE)
  /\ lru' = LRUCache_clear(lru)
  /\ ghost' = [NoGhost EXCEPT !.sizeBefore = Len(lru.cache),
                              !.removed = KeysOf(lru.cache),
                              !.elapsed = now - ghost.cleanedAt,
                              !.cleanedAt = ghost.cleanedAt]
  /\ pc' = "done"
  /\ UNCHANGED <<prev, now, validationCache, detailsCache>>

\* time passes between two calls
Tick ==
  /\ pc = "idle"
  /\ now < MaxTime
  /\ now' = now + 1
  /\ UNCHANGED <<pc, call, prev, result, lru, ghost, validationCache, detailsCache>>

NextLRU ==
  \/ LRUGet
  \/ LRUSet
  \/ LRUClear
  \/ Tick
  \/ Reset

SpecLRU == InitLRU /\ [][NextLRU]_vars

(***************************************************************************)
(* The phone module: validatePhone and getPhoneDetails are called in any   *)
(* order on the numbers below while the clock advances; the two module     *)
(* caches carry over from call to call.                                    *)
(***************************************************************************)
PhoneStrings ==
  {Digits(<<0, 6, 1, 2, 3, 4, 5, 6, 7, 8>>),
   <<CH.plus>> \o Digits(<<2, 1, 2>>) \o <<CH.space>> \o Digits(<<6, 1, 2>>)
     \o <<CH.minus>> \o Digits(<<3, 4, 5>>) \o <<CH.minus>> \o Digits(<<6, 7, 8>>),
   Digits(<<0, 0, 2, 1, 2, 6, 6, 6, 6, 6, 6, 6, 6, 6>>),
   Digits(<<0, 5, 2, 2, 3, 3, 4, 4, 5, 5>>),
   Digits(<<0, 8, 1, 2, 3, 4, 5, 6, 7, 8>>),
   Digits(<<1, 2, 3>>),
   Digits(<<0, 6, 1, 2, 3, 4, 5, 6, 7, 8>>) \o [i \in 1..11 |-> CH.space],
   <<>>}

PhoneInputs == {JSString(p) : p \in PhoneStrings} \cup {JSNull, JSObject}

ValidatePhone ==
  /\ pc = "idle"
  /\ \E phone \in PhoneInputs :
       \E v \in {validatePhone(phone, validationCache, now)} :
          /\ call' = Call("validatePhone", phone)
          /\ result' = Returned(v.value)
          /\ validationCache' = v.cache
  /\ pc' = "done"
  /\ UNCHANGED <<prev, now, lru, ghost, detailsCache>>

GetPhoneDetails ==
  /\ pc = "idle"
  /\ \E phone \in PhoneInputs :
       \E d \in {getPhoneDetails(phone, validationCache, detailsCache, now)} :
          /\ call' = Call("getPhoneDetails", phone)
          /\ result' = Returned(d.value)
          /\ validationCache' = d.validationCache
          /\ detailsCache' = d.detailsCache
  /\ pc' = "done"
  /\ UNCHANGED <<prev, now, lru, ghost>>

\* the numbers the other exported functions are called on
FewPhones ==
  {JSString(Digits(<<0, 6, 1, 2, 3, 4, 5, 6, 7, 8>>)),
   JSString(Digits(<<0, 0, 2, 1, 2, 6, 6, 6, 6, 6, 6, 6, 6, 6>>)),
   JSString(Digits(<<0, 5, 2, 2, 3, 3, 4, 4, 5, 5>>)),
   JSNull}

PhoneFormats == {"NATIONAL", "INTERNATIONAL", "E164", "RFC3966"}

FormatPhone ==
  /\ pc = "idle"
  /\ \E phone \in FewPhones, format \in PhoneFormats :
       \E f \in {formatPhone(phone, format, validationCache, now)} :
          /\ call' = Call("formatPhone", phone)
          /\ result' = Returned(f.value)
          /\ validationCache' = f.cache
  /\ pc' = "done"
  /\ UNCHANGED <<prev, now, lru, ghost, detailsCache>>

MaskChars == {<<CH.star>>, <<CH.x, CH.x>>, <<>>}

MaskPhone ==
  /\ pc = "idle"
  /\ \E phone \in FewPhones, maskChar \in MaskChars :
       \E m \in {maskPhone(phone, maskChar, validationCache, now)} :
          /\ call' = Call("maskPhone", phone)
          /\ result' = Returned(m.value)
          /\ validationCache' = m.cache
  /\ pc' = "done"
  /\ UNCHANGED <<prev, now, lru, ghost, detailsCache>>

\* texts with three numbers, with one number written twice and in two ways,
\* and with no number
PhoneTexts ==
  {Digits(<<0, 6, 1, 2, 3, 4, 5, 6, 7, 8>>) \o <<CH.space>>
     \o Digits(<<0, 5, 2, 2, 3, 3, 4, 4, 5, 5>>) \o <<CH.space, CH.A, CH.space>>
     \o Digits(<<0, 6, 6, 6, 6, 6, 6, 6, 6, 6>>),
   <<CH.plus>> \o Digits(<<2, 1, 2, 6, 1, 2, 3, 4, 5, 6, 7, 8>>) \o <<CH.A>>
     \o Digits(<<0, 6, 1, 2, 3, 4, 5, 6, 7, 8>>) \o <<CH.space>>
     \o Digits(<<0, 6, 1, 2, 3, 4, 5, 6, 7, 8>>),
   Digits(<<1, 2, 3>>)}

ExtractPhoneNumbers ==
  /\ pc = "idle"
  /\ \E text \in {JSString(x) : x \in PhoneTexts} \cup {JSNull} :
       \E e \in {extractPhoneNumbers(text, validationCache, now)} :
          /\ call' = Call("extractPhoneNumbers", text)
          /\ result' = Returned(e.value)
          /\ validationCache' = e.cache
  /\ pc' = "done"
  /\ UNCHANGED <<prev, now, lru, ghost, detailsCache>>

NextPhone ==
  \/ ValidatePhone
  \/ GetPhoneDetails
  \/ FormatPhone
  \/ MaskPhone
  \/ ExtractPhoneNumbers
  \/ Tick
  \/ Reset

SpecPhone == Init /\ [][NextPhone]_vars

(***************************************************************************)
(* Properties.  `Args` and `Done(op)` name the call a property is about;   *)
(* RefDigitsOf and RefControl restate the expected values without the      *)
(* operators above.                                                        *)
(***************************************************************************)
Done(op) == pc = "done" /\ call.op = op

RefDigitsOf(s) == SelectSeq(s, LAMBDA c : c \in 48..57)

IsFifteenDigits(v) ==
  v.type = "string" /\ Len(v.str) = 15 /\ RefDigitsOf(v.str) = v.str

\* C1: for a string of exactly 15 ASCII digits, validateICE(s).isValid is
\* true exactly when calculateControl of the first 13 digits, which is their
\* decimal value modulo 97 written with two digits, equals the last 2 digits.
C1_ValidIffControlMatches ==
  (Done("validateICE") /\ IsFifteenDigits(call.ice)) =>
    LET s == call.ice.str
        control == calculateControl(SubSeq(s, 1, 13))
    IN /\ ~control.threw
       /\ control.value = RefControl(SubSeq(s, 1, 13))
       /\ result.value.isValid <=> (RefControl(SubSeq(s, 1, 13)) = SubSeq(s, 14, 15))

C1_Witness ==
  /\ Done("validateICE")
  /\ IsFifteenDigits(call.ice)
  /\ result.value.isValid
  /\ call.ice.str = Digits(<<1, 2, 3, 4, 5, 6, 7, 8, 9, 0, 0, 0, 0, 6, 0>>)

\* C2: for every input that is not a primitive string, validateICE returns
\* isValid = false with error code INVALID_INPUT_TYPE (ICE_001), and
\* isValidICE returns false.
C2_NonStringIsInvalidInputType ==
  /\ (Done("validateICE") /\ call.ice.type # "string") =>
       /\ ~result.threw
       /\ ~result.value.isValid
       /\ result.value.hasError
       /\ result.value.error.code = "ICE_001"
  /\ (Done("isValidICE") /\ call.ice.type # "string") =>
       (~result.threw /\ result.value = FALSE)

\* C3: every result of validateICE has isValid true exactly when components
\* is present and error is absent, and isValid false exactly when error is
\* present and components is absent.
C3_ValidIffComponentsNoError ==
  Done("validateICE") =>
    LET r == result.value
    IN /\ ~result.threw
       /\ r.isValid <=> (r.hasComponents /\ ~r.hasError)
       /\ (~r.isValid) <=> (r.hasError /\ ~r.hasComponents)

C3_Witness ==
  /\ Done("validateICE")
  /\ ~result.value.isValid
  /\ result.value.hasError
  /\ result.value.error.code = "ICE_004"

\* C4: for a string input whose digits number other than 15, validateICE
\* fails with INVALID_LENGTH (ICE_002), never INVALID_CONTROL, and the
\* details carry receivedLength = the number of digits and sanitized = the
\* digits.
C4_WrongLengthIsInvalidLength ==
  (Done("validateICE") /\ call.ice.type = "string"
     /\ Len(RefDigitsOf(call.ice.str)) # 15) =>
    LET r == result.value
    IN /\ ~r.isValid
       /\ r.hasError
       /\ r.error.code = "ICE_002"
       /\ r.error.hasDetails
       /\ {"receivedLength", "sanitized"} \subseteq r.error.details.keys
       /\ r.error.details.receivedLength = Len(RefDigitsOf(call.ice.str))
       /\ r.error.details.sanitized = RefDigitsOf(call.ice.str)

C4_Witness ==
  /\ Done("validateICE")
  /\ call.ice.type = "string"
  /\ Len(RefDigitsOf(call.ice.str)) = 16
  /\ result.value.error.code = "ICE_002"
  /\ result.value.error.details.receivedLength = 16

\* C5: for a 15-digit input whose last two digits differ from the computed
\* control, validateICE fails with INVALID_CONTROL (ICE_004); the details
\* hold calculatedControl (the computed control) and providedControl (the
\* last two digits of the input), and the two differ.
C5_WrongControlIsInvalidControl ==
  (Done("validateICE") /\ IsFifteenDigits(call.ice)
     /\ RefControl(SubSeq(call.ice.str, 1, 13)) # SubSeq(call.ice.str, 14, 15)) =>
    LET r == result.value
    IN /\ ~r.isValid
       /\ r.hasError
       /\ r.error.code = "ICE_004"
       /\ r.error.hasDetails
       /\ {"calculatedControl", "providedControl"} \subseteq r.error.details.keys
       /\ r.error.details.calculatedControl = RefControl(SubSeq(call.ice.str, 1, 13))
       /\ r.error.details.providedControl = SubSeq(call.ice.str, 14, 15)
       /\ r.error.details.calculatedControl # r.error.details.providedControl

C5_Witness ==
  /\ Done("validateICE")
  /\ call.ice = JSString(Digits(<<1, 2, 3, 4, 5, 6, 7, 8, 9, 0, 0, 0, 0, 6, 1>>))
  /\ result.value.error.code = "ICE_004"
  /\ result.value.error.details.calculatedControl = Digits(<<6, 0>>)
  /\ result.value.error.details.providedControl = Digits(<<6, 1>>)

\* C6: for a 13-digit payload p and a 2-digit suffix c, calculateControl of
\* p followed by c equals calculateControl(p).
C6_ControlIgnoresSuffix ==
  (Done("calculateControl") /\ IsFifteenDigits(call.ice)) =>
    LET bare == calculateControl(SubSeq(call.ice.str, 1, 13))
    IN /\ ~result.threw
       /\ ~bare.threw
       /\ result.value = bare.value

C6_Witness ==
  /\ Done("calculateControl")
  /\ call.ice = JSString(Digits(<<1, 2, 3, 4, 5, 6, 7, 8, 9, 0, 0, 0, 1, 3, 1>>))
  /\ result = Returned(Digits(<<6, 1>>))

\* C7: validateControl(s) returns true exactly when s is a 15-digit string
\* whose last two digits are the MOD-97 control of its first 13 digits; for
\* every other input (another length, a non-digit, not a string) it returns
\* false and does not throw.
C7_ControlTrueOnlyForValidICE ==
  Done("validateControl") =>
    /\ ~result.threw
    /\ result.value <=>
         /\ IsFifteenDigits(call.ice)
         /\ RefControl(SubSeq(call.ice.str, 1, 13)) = SubSeq(call.ice.str, 14, 15)

\* C8: for a valid ICE x, raw or written with separators, and accepted
\* options, unformatICE(formatICE(x, options)) equals sanitizeICE(x).
C8_UnformatInvertsFormat ==
  (pc = "chained" /\ call.op = "unformatICE" /\ prev.op = "formatICE") =>
    /\ ~result.threw
    /\ result.value = RefDigitsOf(prev.ice.str)
    /\ sanitizeICE(prev.ice) = Returned(result.value)

C8_Witness ==
  /\ pc = "chained"
  /\ call.op = "unformatICE"
  /\ prev.op = "formatICE"
  /\ prev.options.prefix
  /\ prev.options.groupCompanyDigits
  /\ prev.options.separator = <<CH.A>>
  /\ Len(prev.ice.str) > 15
  /\ Len(call.ice.str) = 23
  /\ Len(result.value) = 15

\* C9: formatICE returns a string only when validateICE accepts the input;
\* for an input validateICE rejects it throws ICEFormattingError with code
\* ICE_FORMAT_001 and details holding the input and the validation result.
C9_FormatRefusesInvalid ==
  Done("formatICE") =>
    LET validation == validateICE(call.ice)
    IN /\ ~result.threw => validation.isValid
       /\ ~validation.isValid =>
            /\ result.threw
            /\ result.name = "ICEFormattingError"
            /\ result.code = "ICE_FORMAT_001"
            /\ result.details.keys = {"input", "validationResult"}
            /\ result.details.input = call.ice
            /\ result.details.validationResult = validation

C9_Witness ==
  /\ Done("formatICE")
  /\ result.threw
  /\ result.code = "ICE_FORMAT_001"
  /\ result.details.validationResult.error.code = "ICE_004"
  /\ call.options.separator = <<CH.minus>>

IsOneNonDigit(separator) == Len(separator) = 1 /\ separator[1] \notin 48..57

\* C10 as stated: for a valid ICE, a separator string that is not exactly
\* one non-digit character (length other than 1, or a digit) makes
\* formatICE throw INVALID_SEPARATOR with details {separator}.
C10_Original_AnyBadSeparatorThrows ==
  (Done("formatICE") /\ validateICE(call.ice).isValid
     /\ call.options.hasSeparator /\ ~IsOneNonDigit(call.options.separator)) =>
    /\ result.threw
    /\ result.name = "ICEFormattingError"
    /\ result.code = "ICE_FORMAT_002"
    /\ result.details.keys = {"separator"}
    /\ result.details.separator = call.options.separator

\* C10 amended: for a valid ICE, a non-empty separator string that is not
\* exactly one non-digit character (longer than 1, or a digit) makes
\* formatICE throw INVALID_SEPARATOR with details {separator}; the empty
\* string is not refused: formatICE returns what it returns for the default
\* separator, one space.
C10_NonEmptyBadSeparatorThrows ==
  (Done("formatICE") /\ validateICE(call.ice).isValid /\ call.options.hasSeparator) =>
    /\ (call.options.separator # <<>> /\ ~IsOneNonDigit(call.options.separator)) =>
         /\ result.threw
         /\ result.name = "ICEFormattingError"
         /\ result.code = "ICE_FORMAT_002"
         /\ result.details.keys = {"separator"}
         /\ result.details.separator = call.options.separator
    /\ call.options.separator = <<>> =>
         /\ ~result.threw
         /\ result = formatICE(call.ice, [call.options EXCEPT !.separator = <<CH.space>>])
         /\ CH.space \in {result.value[i] : i \in 1..Len(result.value)}

C10_Witness ==
  /\ Done("formatICE")
  /\ validateICE(call.ice).isValid
  /\ call.options.hasSeparator
  /\ call.options.separator = <<CH.zero + 1>>
  /\ result.threw
  /\ result.code = "ICE_FORMAT_002"

\* C11: an invalid separator (non-empty, and longer than one character or a
\* digit) passed to formatICE is reported as INVALID_SEPARATOR with details
\* {separator} whether the ICE argument is valid or invalid.
C11_SeparatorErrorIndependentOfICE ==
  (Done("formatICE") /\ call.options.hasSeparator
     /\ call.options.separator # <<>>
     /\ ~IsOneNonDigit(call.options.separator)) =>
    /\ result.threw
    /\ result.name = "ICEFormattingError"
    /\ result.code = "ICE_FORMAT_002"
    /\ result.details.keys = {"separator"}
    /\ result.details.separator = call.options.separator

\* C12: for a valid ICE and an accepted separator sep (one space when none
\* is given), formatICE returns company, sep, establishment, sep, control,
\* the company written as three groups of three digits joined by sep when
\* groupCompanyDigits is set, the whole preceded by "ICE" and sep when
\* prefix is set.
C12_FormatLayout ==
  (Done("formatICE") /\ validateICE(call.ice).isValid) =>
    LET d == RefDigitsOf(call.ice.str)
        sep == IF call.options.hasSeparator /\ call.options.separator # <<>>
               THEN call.options.separator ELSE <<32>>
        company == IF call.options.groupCompanyDigits
                   THEN SubSeq(d, 1, 3) \o sep \o SubSeq(d, 4, 6) \o sep
                          \o SubSeq(d, 7, 9)
                   ELSE SubSeq(d, 1, 9)
        label == IF call.options.prefix THEN <<73, 67, 69>> \o sep ELSE <<>>
    IN IsOneNonDigit(sep) =>
         /\ ~result.threw
         /\ result.value = label \o company \o sep \o SubSeq(d, 10, 13)
                              \o sep \o SubSeq(d, 14, 15)

C12_Witness ==
  /\ Done("formatICE")
  /\ ~result.threw
  /\ call.options.prefix
  /\ call.options.groupCompanyDigits
  /\ call.options.separator = <<CH.minus>>
  /\ Len(result.value) = 23
  /\ result.value[4] = CH.minus
  /\ result.value[8] = CH.minus

\* C13: formatICEWhileTyping is stable under appending: for a digit string d
\* shorter than maxLength and a digit c, the output for d followed by c is
\* the output for d followed by c, or by one separator and c; no separator
\* is inserted among, or moved between, the digits already displayed.
C13_TypingStableUnderAppend ==
  (Done("formatICEWhileTyping") /\ call.ice.str # <<>>
     /\ call.ice.str = RefDigitsOf(call.ice.str)
     /\ Len(call.ice.str) - 1 < call.maxLength) =>
    LET d == SubSeq(call.ice.str, 1, Len(call.ice.str) - 1)
        c == call.ice.str[Len(call.ice.str)]
        before == formatICEWhileTyping(JSString(d), call.maxLength)
    IN /\ ~before.threw
       /\ ~result.threw
       /\ result.value \in {before.value \o <<c>>, before.value \o <<32, c>>}

\* C14: for a string x, sanitizeICE(x) is the ASCII digits of x in their
\* order, every other character (letters, separators, full-width digits)
\* deleted, and sanitizing the result again returns it unchanged.
C14_SanitizeDigitsOnlyIdempotent ==
  /\ (Done("sanitizeICE") /\ TypeofString(call.ice)) =>
       /\ ~result.threw
       /\ result.value = RefDigitsOf(call.ice.str)
  /\ (pc = "chained" /\ call.op = "sanitizeICE" /\ prev.op = "sanitizeICE"
        /\ TypeofString(prev.ice)) =>
       /\ ~result.threw
       /\ result.value = call.ice.str
       /\ result.value = RefDigitsOf(prev.ice.str)

C14_Witness ==
  /\ pc = "chained"
  /\ call.op = "sanitizeICE"
  /\ prev.op = "sanitizeICE"
  /\ \E i \in 1..Len(prev.ice.str) : prev.ice.str[i] = CH.fullwidth1
  /\ Len(prev.ice.str) = 16
  /\ Len(result.value) = 15

\* C15: for every outcome of the random draws and every accepted option
\* set (format off; or format on with no separator or one non-digit
\* separator, with or without prefix and grouping) generateTestICE returns
\* a string that validateICE accepts; with format off the string is exactly
\* 15 digits.
C15_GeneratedIsValid ==
  /\ Done("generateTestICE") =>
       LET sep == call.options.separator
           accepted == \/ ~call.options.format
                       \/ ~call.options.hasSeparator
                       \/ (Len(sep) = 1 /\ sep[1] \notin 48..57)
       IN accepted =>
            /\ ~result.threw
            /\ ~call.options.format =>
                 /\ Len(result.value) = 15
                 /\ \A i \in 1..15 : result.value[i] \in 48..57
                 /\ \A i \in 1..13 : result.value[i] = 48 + call.random[i]
  /\ (pc = "chained" /\ prev.op = "generateTestICE") =>
       /\ result.value.isValid
       /\ \A i \in 1..13 : result.value.sanitized[i] = 48 + prev.random[i]

C15_Witness ==
  /\ pc = "chained"
  /\ prev.op = "generateTestICE"
  /\ prev.options.format
  /\ prev.options.prefix
  /\ prev.options.groupCompanyDigits
  /\ prev.options.separator = <<CH.fullwidth1>>
  /\ prev.random[1] = 9
  /\ Len(call.ice.str) = 23
  /\ result.value.isValid

\* the validator's result the extractor worked on
ValidatorResult == IF call.mocked THEN call.validation ELSE validateICE(call.ice)

\* C16: when the validator rejects the input, extractICEComponents throws
\* ICEExtractionError with code ICE_EXTRACT_001 and details holding the
\* original input and the validator's result unchanged; it never returns
\* components for a rejected input.
C16_ExtractRefusesInvalid ==
  Done("extractICEComponents") =>
    /\ ~result.threw => ValidatorResult.isValid
    /\ ~ValidatorResult.isValid =>
         /\ result.threw
         /\ result.name = "ICEExtractionError"
         /\ result.code = "ICE_EXTRACT_001"
         /\ result.details.keys = {"input", "validationResult"}
         /\ result.details.input = call.ice
         /\ result.details.validationResult = ValidatorResult

C16_Witness ==
  /\ Done("extractICEComponents")
  /\ ~call.mocked
  /\ result.threw
  /\ result.code = "ICE_EXTRACT_001"
  /\ result.details.validationResult.error.code = "ICE_004"
  /\ Len(call.ice.str) = 15

\* C17: when the validator reports a valid result, extractICEComponents
\* returns the components only if the result has a components object
\* whose company, establishment and control are 9, 4 and 2 wide; a valid
\* result without components fails with ICE_EXTRACT_002, one with any other
\* width with ICE_EXTRACT_003.
C17_ExtractChecksComponents ==
  (Done("extractICEComponents") /\ ValidatorResult.isValid) =>
    LET v == ValidatorResult
        exact == /\ v.hasComponents
                 /\ Len(v.components.company) = 9
                 /\ Len(v.components.establishment) = 4
                 /\ Len(v.components.control) = 2
    IN /\ ~result.threw <=> exact
       /\ ~result.threw => result.value = v.components
       /\ ~v.hasComponents =>
            /\ result.threw
            /\ result.name = "ICEExtractionError"
            /\ result.code = "ICE_EXTRACT_002"
            /\ result.details.keys = {"input"}
            /\ result.details.input = call.ice
       /\ (v.hasComponents /\ ~exact) =>
            /\ result.threw
            /\ result.name = "ICEExtractionError"
            /\ result.code = "ICE_EXTRACT_003"
            /\ result.details.keys = {"company", "establishment", "control"}
            /\ result.details.components = v.components

C17_Witness ==
  /\ Done("extractICEComponents")
  /\ call.mocked
  /\ call.validation.isValid
  /\ call.validation.hasComponents
  /\ Len(call.validation.components.company) = 9
  /\ Len(call.validation.components.establishment) = 3
  /\ result.threw
  /\ result.code = "ICE_EXTRACT_003"

\* what was typed without its white space and in upper case
Cleaned(typed) ==
  LET packed == SelectSeq(typed, LAMBDA c : c \notin StrWhiteSpace)
  IN [i \in 1..Len(packed) |->
        IF packed[i] \in 97..122 THEN packed[i] - 32 ELSE packed[i]]

\* C18: for an input whose cleaned form is "MA" and 26 digits, with the code
\* of an active bank at positions 4-6 and matching that bank's IBAN
\* pattern, isValidIBAN returns true exactly when the number written as the
\* last 24 digits, then 2210, then the two check digits is 1 modulo 97; the
\* lower-case and the space-separated spellings get the result of the
\* cleaned form.
C18_IBANChecksum ==
  (Done("isValidIBAN") /\ call.ice.type = "string") =>
    LET cleaned == Cleaned(call.ice.str)
        wellFormed ==
          /\ Len(cleaned) = 28
          /\ cleaned[1] = 77 /\ cleaned[2] = 65
          /\ \A i \in 3..28 : cleaned[i] \in 48..57
          /\ \E k \in 1..Len(MOROCCAN_BANKS) :
                /\ MOROCCAN_BANKS[k].active
                /\ MOROCCAN_BANKS[k].code = SubSeq(cleaned, 5, 7)
                /\ ibanRegexTest(MOROCCAN_BANKS[k], cleaned)
    IN wellFormed =>
         /\ ~result.threw
         /\ result.value =
              (RefMod97(SubSeq(cleaned, 5, 28) \o <<50, 50, 49, 48>>
                          \o SubSeq(cleaned, 3, 4)) = 1)
         /\ result = isValidIBAN(JSString(cleaned))

C18_Witness ==
  /\ Done("isValidIBAN")
  /\ call.ice.type = "string"
  /\ call.ice.str[1] = CH.m
  /\ call.ice.str[5] = CH.space
  /\ Len(Cleaned(call.ice.str)) = 28
  /\ ~result.threw
  /\ result.value

\* C19: exchanging two neighbouring digits that differ in an IBAN that
\* isValidIBAN accepts gives a string that isValidIBAN rejects.
C19_TranspositionRejected ==
  (/\ pc = "chained" /\ call.op = "isValidIBAN" /\ prev.op = "isValidIBAN"
   /\ isValidIBAN(prev.ice).value
   /\ \E i \in 1..(Len(prev.ice.str) - 1) :
        /\ prev.ice.str[i] \in 48..57
        /\ prev.ice.str[i + 1] \in 48..57
        /\ prev.ice.str[i] # prev.ice.str[i + 1]
        /\ call.ice.str = [prev.ice.str EXCEPT ![i] = prev.ice.str[i + 1],
                                               ![i + 1] = prev.ice.str[i]]) =>
    /\ ~result.threw
    /\ result.value = FALSE

C19_Witness ==
  /\ pc = "chained"
  /\ call.op = "isValidIBAN"
  /\ prev.op = "isValidIBAN"
  /\ Len(prev.ice.str) = 28
  /\ SubSeq(call.ice.str, 1, 7) = SubSeq(prev.ice.str, 1, 7)
  /\ call.ice.str[27] # prev.ice.str[27]
  /\ ~result.threw
  /\ result.value = FALSE

\* C20: for a RIB of an active bank with the bank's length and pattern, the
\* remainder isValidRIB folds from the 7-digit chunks of the payload (all
\* digits but the last two) is the payload as a decimal number modulo 97,
\* chunks with leading zeros included, and isValidRIB returns true exactly
\* when the key (the last two digits) is (97 - remainder) mod 97.
C20_RIBFoldIsPayloadMod97 ==
  (Done("isValidRIB") /\ call.ice.type = "string") =>
    LET cleaned == SelectSeq(call.ice.str,
                             LAMBDA c : c \notin StrWhiteSpace \cup {45})
        n == Len(cleaned)
        wellFormed ==
          \E k \in 1..Len(MOROCCAN_BANKS) :
            /\ MOROCCAN_BANKS[k].active
            /\ n = MOROCCAN_BANKS[k].ribLength
            /\ ribRegexTest(MOROCCAN_BANKS[k], cleaned)
        payload == SubSeq(cleaned, 1, n - 2)
        key == 10 * (cleaned[n - 1] - 48) + (cleaned[n] - 48)
    IN wellFormed =>
         /\ ribRemainder(ribChunks(payload), 0) = RefMod97(payload)
         /\ ~result.threw
         /\ result.value = (key = (97 - RefMod97(payload)) % 97)

\* what was typed as a RIB without its white space and hyphens
CleanedRIB(typed) ==
  SelectSeq(typed, LAMBDA c : c \notin StrWhiteSpace \cup {45})

\* the last two digits of a cleaned RIB as a number
KeyOf(cleaned) ==
  10 * (cleaned[Len(cleaned) - 1] - 48) + (cleaned[Len(cleaned)] - 48)

\* C21 as stated: for every RIB isValidRIB accepts, the same chunked fold
\* run over the whole string, payload and key, ends with remainder 1.
C21_Original_WholeFoldIsOne ==
  (Done("isValidRIB") /\ call.ice.type = "string" /\ result.value) =>
    ribRemainder(ribChunks(CleanedRIB(call.ice.str)), 0) = 1

\* C21 amended: for every RIB isValidRIB accepts, the remainder of the
\* chunked fold over the payload (all digits but the last two) and the key
\* add up to a multiple of 97, the key being below 97.
C21_FoldPlusKeyIsMultipleOf97 ==
  (Done("isValidRIB") /\ call.ice.type = "string" /\ result.value) =>
    LET cleaned == CleanedRIB(call.ice.str)
        payload == SubSeq(cleaned, 1, Len(cleaned) - 2)
    IN /\ Len(cleaned) >= 3
       /\ KeyOf(cleaned) < 97
       /\ (ribRemainder(ribChunks(payload), 0) + KeyOf(cleaned)) % 97 = 0

C21_Witness ==
  /\ Done("isValidRIB")
  /\ call.ice.type = "string"
  /\ result.value
  /\ Len(call.ice.str) = 24
  /\ KeyOf(call.ice.str) = 49
  /\ ribRemainder(ribChunks(call.ice.str), 0) = 96

\* C22: replacing one digit, of the payload or of the key, of a RIB that
\* isValidRIB accepts by a different digit gives a string that isValidRIB
\* rejects.
C22_SingleDigitErrorRejected ==
  (/\ pc = "chained" /\ call.op = "isValidRIB" /\ prev.op = "isValidRIB"
   /\ isValidRIB(prev.ice).value
   /\ Len(call.ice.str) = Len(prev.ice.str)
   /\ \E i \in 1..Len(prev.ice.str) :
        /\ prev.ice.str[i] \in 48..57
        /\ call.ice.str[i] \in 48..57
        /\ call.ice.str[i] # prev.ice.str[i]
        /\ \A j \in 1..Len(prev.ice.str) :
             j # i => call.ice.str[j] = prev.ice.str[j]) =>
    /\ ~result.threw
    /\ result.value = FALSE

\* C23: isValidIBAN and isValidRIB never throw: for every input value they
\* return a boolean, and false for every value that is not a string and
\* whenever the lookup or the parsing inside them fails.
C23_BankValidatorsNeverThrow ==
  (pc \in {"done", "chained"} /\ call.op \in {"isValidIBAN", "isValidRIB"}) =>
    /\ ~result.threw
    /\ result.value \in BOOLEAN
    /\ call.ice.type \notin {"string", "String"} => result.value = FALSE
    /\ (call.op = "isValidIBAN" /\ isValidIBANTry(call.ice).threw) =>
         result.value = FALSE
    /\ (call.op = "isValidRIB" /\ isValidRIBTry(call.ice).threw) =>
         result.value = FALSE

C23_Witness ==
  /\ Done("isValidRIB")
  /\ call.ice.type = "null"
  /\ ~result.threw
  /\ result.value = FALSE

\* C24: a space, hyphen, slash, dot or underscore written between two
\* characters of a RIB that isValidRIB accepts, or of an IBAN that
\* isValidIBAN accepts, gives an input the same validator still accepts.
C24_SeparatorsAreNoise ==
  (/\ pc = "chained" /\ call.op \in {"isValidIBAN", "isValidRIB"}
   /\ prev.op = call.op
   /\ prev.ice.type = "string"
   /\ (IF prev.op = "isValidIBAN" THEN isValidIBAN(prev.ice)
        ELSE isValidRIB(prev.ice)).value
   /\ \E i \in 1..(Len(prev.ice.str) - 1), c \in {32, 45, 47, 46, 95} :
        call.ice.str = SubSeq(prev.ice.str, 1, i) \o <<c>>
                         \o SubSeq(prev.ice.str, i + 1, Len(prev.ice.str))) =>
    /\ ~result.threw
    /\ result.value = TRUE

\* C25: for every input string that isValidRIB or isValidIBAN accepts,
\* getBankDetails of the same input returns a bank, the active entry whose
\* code is the three-digit bank code of the identifier.
C25_DetailsOfAccepted ==
  (/\ pc = "chained" /\ call.op = "getBankDetails"
   /\ prev.op \in {"isValidIBAN", "isValidRIB"}
   /\ prev.ice.type = "string") =>
    LET segment == IF prev.op = "isValidIBAN"
                   THEN SubSeq(Cleaned(prev.ice.str), 5, 7)
                   ELSE SubSeq(CleanedRIB(prev.ice.str), 1, 3)
    IN /\ ~result.threw
       /\ result.value.found
       /\ result.value.bank.active
       /\ result.value.bank.code = segment

\* C27: LRUCache evicts the least recently used entry: when set inserts a new
\* key into a cache that holds maxSize entries (and no cleanup is due), the
\* one entry removed is the key whose last use, a get that hit or a set, is
\* the oldest.
C27_EvictsLeastRecentlyUsed ==
  (/\ Done("LRUCache.set")
   /\ ~ghost.hadKey
   /\ ghost.sizeBefore = lru.maxSize
   /\ ghost.elapsed < lru.cleanupInterval) =>
    ghost.removed = {ghost.oldest}

\* C28: LRUCache is size-bounded: the number of stored entries never exceeds
\* maxSize, and a set performed at least cleanupInterval after the previous
\* cleanup leaves only the key just set.
C28_SizeBounded ==
  /\ Len(lru.cache) <= lru.maxSize
  /\ (Done("LRUCache.set") /\ ghost.elapsed >= lru.cleanupInterval) =>
       /\ Len(lru.cache) = 1
       /\ lru.cache[1].key = ghost.key

\* a set on a full cache of two or more entries, made when a cleanup is due
C28_Witness ==
  /\ Done("LRUCache.set")
  /\ ghost.elapsed >= lru.cleanupInterval
  /\ lru.maxSize >= 2
  /\ ghost.sizeBefore = lru.maxSize
  /\ ~ghost.hadKey
  /\ Len(lru.cache) = 1

\* a set of a new key on a full cache when no cleanup is due
C28_WitnessFull ==
  /\ Done("LRUCache.set")
  /\ ghost.elapsed < lru.cleanupInterval
  /\ ghost.sizeBefore = lru.maxSize
  /\ ~ghost.hadKey
  /\ Len(lru.cache) = lru.maxSize

\* C26: the phone-module cache is transparent: whatever calls were made
\* before and however much time has passed, validatePhone(p) and
\* getPhoneDetails(p) return the field values they return with empty caches.
C26_CacheTransparent ==
  LET empty == LRUCache(PhoneCacheSize, CleanupInterval, now)
  IN /\ Done("validatePhone") =>
          result.value = validatePhone(call.ice, empty, now).value
     /\ Done("getPhoneDetails") =>
          result.value = getPhoneDetails(call.ice, empty, empty, now).value

\* the details of a valid number are answered from the details cache: the
\* number is no longer in the validation cache, where a recomputation would
\* have stored it
C26_Witness ==
  /\ Done("getPhoneDetails")
  /\ result.value.isValid
  /\ now > 0
  /\ MapHas(detailsCache.cache, cacheKey(normalizeInput(call.ice).str))
  /\ ~MapHas(validationCache.cache, cacheKey(normalizeInput(call.ice).str))
  /\ Len(validationCache.cache) = validationCache.maxSize

\* C29: validateICE never reports NON_NUMERIC_CHARACTERS (ICE_003): the only
\* error codes it returns are INVALID_INPUT_TYPE, INVALID_LENGTH and
\* INVALID_CONTROL, and a string with letters or symbols in it is accepted
\* whenever its digits alone are 15 digits ending in the right control.
C29_NeverNonNumeric ==
  Done("validateICE") =>
    LET r == result.value
        digits == RefDigitsOf(call.ice.str)
    IN /\ ~result.threw
       /\ r.hasError => r.error.code \in {"ICE_001", "ICE_002", "ICE_004"}
       /\ (/\ call.ice.type = "string"
           /\ digits # call.ice.str
           /\ Len(digits) = 15
           /\ RefControl(SubSeq(digits, 1, 13)) = SubSeq(digits, 14, 15)) =>
            /\ r.isValid
            /\ r.sanitized = digits

\* a valid ICE with a letter in it is accepted
C29_Witness ==
  /\ Done("validateICE")
  /\ call.ice.type = "string"
  /\ \E i \in 1..Len(call.ice.str) : call.ice.str[i] = CH.A
  /\ Len(RefDigitsOf(call.ice.str)) = 15
  /\ result.value.isValid

\* C30: on strings unformatICE and sanitizeICE are the same function: for
\* every string, with or without an "ICE" label in any letter case and at any
\* position, unformatICE returns what sanitizeICE returns, the ASCII digits
\* of the string in order, without validating them.
C30_UnformatIsSanitize ==
  (Done("unformatICE") /\ call.ice.type = "string") =>
    /\ ~result.threw
    /\ result = sanitizeICE(call.ice)
    /\ result.value = RefDigitsOf(call.ice.str)

\* a label in the middle of the digits of an identifier
C30_Witness ==
  /\ Done("unformatICE")
  /\ call.ice.type = "string"
  /\ Len(call.ice.str) = 19
  /\ SubSeq(call.ice.str, 4, 7) = <<CH.i, CH.C, CH.e, CH.space>>
  /\ Len(result.value) = 15

====
